---- MODULE Spec2Model ----
(***************************************************************************)
(* Model of the retrieval-augmented chat core of Team-Yuon/server:         *)
(*   - ChatbotService.deduplicateAndRank and ChatbotService.Chat           *)
(*     (internal/rag/service/chatbot.go),                                  *)
(*   - ConversationStore (Append / History / End),                         *)
(*   - WebSocketHandler (Handle loop, handleAppendMessage and the other    *)
(*     event handlers, splitString).                                       *)
(***************************************************************************)
EXTENDS Integers, Sequences, FiniteSets, TLC

----------------------------------------------------------------------------
(* Bounds of the model *)

\* longest candidate list handed to deduplicateAndRank in SpecFusion
MaxDocs == 4
\* scores are drawn from 1..MaxScore
MaxScore == 2
\* largest topK drawn (the smallest is -1: top_k is a signed int)
MaxTopK == 3
\* longest hit list an index returns in SpecChat
MaxHits == 1
\* a turn is read only while the session store holds at most MaxHist - 2 messages
MaxHist == 4
\* identifiers uuid.New() may hand out
MaxUuid == 2
\* the longest answer of a streaming turn takes MaxChunks chunks
MaxChunks == 2
\* calls and caller writes the goroutines make between them
MaxOps == 5
\* longest answer, in characters, handed to splitString in SpecSplit
MaxSplitLen == 401
\* most vectors in a batch handed to ProjectVectors
MaxBatch == 3
\* largest dimension of the embeddings of a batch
MaxDim == 2

DocIds == {"d1", "d2", "d3"}
Scores == 1..MaxScore
TopKs == (0 - 1)..MaxTopK

----------------------------------------------------------------------------
(* State *)

VARIABLES
    fPhase,     \* SpecFusion: "input" before deduplicateAndRank ran, "done" after
    fDocs,      \* SpecFusion: the candidate list (docs argument)
    fTopK,      \* SpecFusion: the topK argument
    fOut,       \* SpecFusion: what deduplicateAndRank produced
    hPhase,     \* SpecChat: "request" before POST /chat was served, "done" after
    hReq,       \* SpecChat: the decoded rag.ChatRequest
    hEnv,       \* SpecChat: how the external services answer during the call
    hRes,       \* SpecChat: what ChatbotHandler.Chat did (status, body, calls made)
    histories,  \* ConversationStore.histories: conversation id -> messages
    uuids,      \* how many identifiers uuid.New() has handed out
    pc,         \* per connection: where its handler goroutine stands
    req,        \* per connection: the turn's request (handleAppendMessage's req)
    resp,       \* per connection: the turn's rag.ChatResponse
    out,        \* per connection: the envelopes written since the last frame was read
    last,       \* per connection: what became of the last frame read
    window,     \* per connection: append_message frames read in the current second
    sArrays,    \* SpecStore: the backing arrays allocated so far (address = index)
    sMap,       \* SpecStore: ConversationStore.histories, id -> slice header
    sMu,        \* SpecStore: ConversationStore.mu (writer and readers holding it)
    sPc,        \* SpecStore: per goroutine, where it stands in its store call
    sOp,        \* SpecStore: per goroutine, the call it is making
    sLoc,       \* SpecStore: per goroutine, the slice header it read
    sRes,       \* SpecStore: per goroutine, the slice its last History returned
    sDone,      \* SpecStore: per goroutine, the calls and writes made so far
    sLin,       \* SpecStore: id -> the messages appended since the last End(id)
    sSeen,      \* SpecStore: id -> the last History(id) result since the last End(id)
    spPhase,    \* SpecSplit: "input" before splitString ran, "done" after
    spText,     \* SpecSplit: the text argument (a Go string: its bytes)
    spSize,     \* SpecSplit: the size argument
    spChunks,   \* SpecSplit: the chunks returned
    tPc,        \* SpecTurn: per goroutine, where its handler stands in the turn
    pPhase,     \* SpecProject: "input" before ProjectVectors ran, "done" after
    pVectors,   \* SpecProject: the vectors QueryDocumentVectors returned
    pSvdOk,     \* SpecProject: whether svd.Factorize succeeds
    pOut        \* SpecProject: what ProjectVectors produced

fusionVars == <<fPhase, fDocs, fTopK, fOut>>
chatVars == <<hPhase, hReq, hEnv, hRes>>
wsVars == <<histories, uuids, pc, req, resp, out, last, window>>
storeVars == <<sArrays, sMap, sMu, sPc, sOp, sLoc, sRes, sDone, sLin, sSeen>>
splitVars == <<spPhase, spText, spSize, spChunks>>
turnVars == <<tPc>>
projVars == <<pPhase, pVectors, pSvdOk, pOut>>

vars == <<fusionVars, chatVars, wsVars, storeVars, splitVars, turnVars, projVars>>

----------------------------------------------------------------------------
(* rag.Document: id, score and content (metadata plays no part in fusion) *)

Doc(id, score, content) == [id |-> id, score |-> score, content |-> content]

\* Sequences over S of length 0..n
RECURSIVE SeqsUpTo(_, _)
SeqsUpTo(S, n) ==
    IF n = 0 THEN {<<>>}
    ELSE LET shorter == SeqsUpTo(S, n - 1)
         IN  shorter \cup {Append(s, x) : s \in {t \in shorter : Len(t) = n - 1}, x \in S}

----------------------------------------------------------------------------
(* ChatbotService.deduplicateAndRank *)

\* the dedup loop: for _, doc := range docs { if !seen[doc.ID] {...} }
RECURSIVE DedupLoop(_, _, _, _)
DedupLoop(docs, i, seen, unique) ==
    IF i > Len(docs) THEN unique
    ELSE IF docs[i].id \in seen
         THEN DedupLoop(docs, i + 1, seen, unique)
         ELSE DedupLoop(docs, i + 1, seen \cup {docs[i].id}, Append(unique, docs[i]))

\* mutant: the seen map is never consulted
DedupNoSeen(docs) == docs

Dedup(docs) == DedupLoop(docs, 1, {}, <<>>)

Swap(u, i, j) == [u EXCEPT ![i] = u[j], ![j] = u[i]]

\* inner loop: for j := i + 1; j < len(unique); j++ (indices 1-based here)
RECURSIVE SortInner(_, _, _)
SortInner(u, i, j) ==
    IF j > Len(u) THEN u
    ELSE SortInner(IF u[i].score < u[j].score THEN Swap(u, i, j) ELSE u, i, j + 1)

\* outer loop: for i := 0; i < len(unique)-1; i++
RECURSIVE SortOuter(_, _)
SortOuter(u, i) ==
    IF i > Len(u) - 1 THEN u
    ELSE SortOuter(SortInner(u, i, i + 1), i + 1)

\* mutant: the outer loop stops one position early (i < len(unique)-2)
RECURSIVE SortOuterShort(_, _)
SortOuterShort(u, i) ==
    IF i > Len(u) - 2 THEN u
    ELSE SortOuterShort(SortInner(u, i, i + 1), i + 1)

\* mutant of SortByScore: one pass short
SortByScoreShort(u) == SortOuterShort(u, 1)

SortByScore(u) == SortOuter(u, 1)

\* mutant of Truncate: the slice is never cut
TruncateNever(u, topK) == [panic |-> FALSE, docs |-> u]

\* if len(unique) > topK { unique = unique[:topK] }
\* unique[:topK] with topK < 0 is a run-time panic (slice bounds out of range)
Truncate(u, topK) ==
    IF Len(u) > topK
    THEN IF topK < 0
         THEN [panic |-> TRUE, docs |-> <<>>]
         ELSE [panic |-> FALSE, docs |-> SubSeq(u, 1, topK)]
    ELSE [panic |-> FALSE, docs |-> u]

\* mutant of deduplicateAndRank: truncation happens before the sort
RankCutFirst(docs, topK) ==
    LET t == Truncate(Dedup(docs), topK)
    IN  [panic |-> t.panic, docs |-> SortByScore(t.docs)]

deduplicateAndRank(docs, topK) == Truncate(SortByScore(Dedup(docs)), topK)

NoResult == [panic |-> FALSE, docs |-> <<>>]

FusionIdle ==
    /\ fPhase = "input"
    /\ fDocs = <<>>
    /\ fTopK = 0
    /\ fOut = NoResult

----------------------------------------------------------------------------
(* Text is a Go string: the sequence of its bytes.  rag.ChatMessage is a role
   and a content. *)

Hi == <<104, 105>>
Hello == <<104, 101, 108, 108, 111>>

ChatMessage(role, content) == [role |-> role, content |-> content]

\* history a client sends inline
InlineHistory == <<ChatMessage("user", Hello), ChatMessage("assistant", Hi)>>

----------------------------------------------------------------------------
(* The external services during one Chat call.  ok[s] tells whether the call
   to service s returns a result; it is FALSE when the service fails and when
   the context's deadline (the 2-minute timeout of a streaming turn, the
   request context of POST /chat) has passed by the time of the call. *)

Services == {"embed", "vector", "fulltext", "llm"}

\* the hits an index holds for the query, best first as the index ranks them
Take(s, n) == IF n >= 0 /\ n < Len(s) THEN SubSeq(s, 1, n) ELSE s

\* llm.GenerateEmbedding, then vectorStore.Search(ctx, vector, topK)
searchByVector(env, topK) ==
    IF ~env.ok["embed"]
    THEN [err |-> TRUE, docs |-> <<>>, calls |-> <<[svc |-> "embed"]>>]
    ELSE IF ~env.ok["vector"]
         THEN [err |-> TRUE, docs |-> <<>>,
               calls |-> <<[svc |-> "embed"], [svc |-> "vector", limit |-> topK]>>]
         ELSE [err |-> FALSE, docs |-> Take(env.vecHits, topK),
               calls |-> <<[svc |-> "embed"], [svc |-> "vector", limit |-> topK]>>]

\* fullText.Search(ctx, query, topK)
searchByFullText(env, topK) ==
    IF ~env.ok["fulltext"]
    THEN [err |-> TRUE, docs |-> <<>>, calls |-> <<[svc |-> "fulltext", limit |-> topK]>>]
    ELSE [err |-> FALSE, docs |-> Take(env.ftHits, topK),
          calls |-> <<[svc |-> "fulltext", limit |-> topK]>>]

NoSearch == [err |-> FALSE, docs |-> <<>>, calls |-> <<>>]

\* if req.TopK == 0 { req.TopK = 5 }
DefaultTopK == 5

\* mutant: topK is used as the request carries it
EffectiveTopKAsGiven(topK) == topK

EffectiveTopK(topK) == IF topK = 0 THEN DefaultTopK ELSE topK

\* mutant: the full-text hits are put in front of the vector hits
ConcatenatedFullTextFirst(vec, ft) ==
    (IF ft.err THEN <<>> ELSE ft.docs) \o (IF vec.err THEN <<>> ELSE vec.docs)

\* retrievedDocs: the hits of the vector search, then those of the full-text
\* search; a search that failed contributes nothing
Concatenated(vec, ft) ==
    (IF vec.err THEN <<>> ELSE vec.docs) \o (IF ft.err THEN <<>> ELSE ft.docs)

\* ChatbotService.Chat.  outcome is "ok" (a response), "error" (an error
\* return) or "panic" (deduplicateAndRank sliced with a negative topK);
\* calls lists the calls made to the external services, in order.
Chat(chatReq, env) ==
    LET topK == EffectiveTopK(chatReq.topK)
        vec == IF chatReq.useVectorSearch THEN searchByVector(env, topK) ELSE NoSearch
        ft == IF chatReq.useFullText THEN searchByFullText(env, topK) ELSE NoSearch
        retrievedDocs == Concatenated(vec, ft)
        ranked == deduplicateAndRank(retrievedDocs, topK)
        messages == Append(chatReq.history, ChatMessage("user", chatReq.message))
        llmCall == [svc |-> "llm", messages |-> messages, documents |-> ranked.docs]
    IN  IF ranked.panic
        THEN [outcome |-> "panic", calls |-> vec.calls \o ft.calls]
        ELSE IF ~env.ok["llm"]
             THEN [outcome |-> "error", calls |-> vec.calls \o ft.calls \o <<llmCall>>]
             ELSE [outcome |-> "ok",
                   calls |-> vec.calls \o ft.calls \o <<llmCall>>,
                   answer |-> env.answer,
                   conversationId |-> chatReq.conversationId,
                   sources |-> ranked.docs,
                   tokensUsed |-> env.tokens]

----------------------------------------------------------------------------
(* ChatbotHandler.Chat: POST /api/v1/chat *)

ChatRequest(message, conversationId, useVector, useFullText, topK, history) ==
    [message |-> message, conversationId |-> conversationId,
     useVectorSearch |-> useVector, useFullText |-> useFullText,
     topK |-> topK, history |-> history]

\* mutant: the search flags reach the service as the client gave them
HandlerChatFlagsAsGiven(chatReq, env) ==
    IF chatReq.message = <<>>
    THEN [status |-> 400, chat |-> [outcome |-> "none", calls |-> <<>>]]
    ELSE LET c == Chat(chatReq, env)
         IN  [status |-> IF c.outcome = "ok" THEN 200 ELSE 500, chat |-> c]

\* mutant: the session history of the conversation id is put in front of the
\* request's history
HandlerChatWithSession(chatReq, env) ==
    IF chatReq.message = <<>>
    THEN [status |-> 400, chat |-> [outcome |-> "none", calls |-> <<>>]]
    ELSE LET both == ~chatReq.useVectorSearch /\ ~chatReq.useFullText
             session == IF chatReq.conversationId = "" THEN <<>>
                        ELSE histories[chatReq.conversationId]
             r == [chatReq EXCEPT !.useVectorSearch = IF both THEN TRUE ELSE @,
                              !.useFullText = IF both THEN TRUE ELSE @,
                              !.history = session \o @]
             c == Chat(r, env)
         IN  [status |-> IF c.outcome = "ok" THEN 200 ELSE 500, chat |-> c]

\* ShouldBindJSON (message is binding:"required"), the flag default, the
\* service call and the response
HandlerChat(chatReq, env) ==
    IF chatReq.message = <<>>
    THEN [status |-> 400, chat |-> [outcome |-> "none", calls |-> <<>>]]
    ELSE LET both == ~chatReq.useVectorSearch /\ ~chatReq.useFullText
             r == [chatReq EXCEPT !.useVectorSearch = IF both THEN TRUE ELSE @,
                              !.useFullText = IF both THEN TRUE ELSE @]
             c == Chat(r, env)
         IN  [status |-> IF c.outcome = "ok" THEN 200 ELSE 500, chat |-> c]

----------------------------------------------------------------------------
(* ConversationStore: every operation runs under the store's mutex, so each
   is one atomic step.  A map entry that is absent and one that holds no
   message are the same to every reader (len(history) == 0). *)

ConversationStore_Append(h, id, msg) == [h EXCEPT ![id] = Append(@, msg)]

\* the clone made under RLock: the messages, never the backing array
ConversationStore_History(h, id) == h[id]

\* mutant: End drops every conversation
ConversationStore_EndAll(h, id) == [k \in DOMAIN h |-> <<>>]

ConversationStore_End(h, id) == [h EXCEPT ![id] = <<>>]

\* the number of messages the store holds
RECURSIVE SumLen(_, _)
SumLen(h, ids) ==
    IF ids = {} THEN 0
    ELSE LET id == CHOOSE x \in ids : TRUE
         IN  Len(h[id]) + SumLen(h, ids \ {id})

Stored(h) == SumLen(h, DOMAIN h)

\* ChatbotService wrappers: an empty conversation id never reaches the store
ConversationHistory(h, id) ==
    IF id = "" THEN <<>> ELSE ConversationStore_History(h, id)

AppendConversationMessage(h, id, msg) ==
    IF id = "" THEN h ELSE ConversationStore_Append(h, id, msg)

CloseConversation(h, id) ==
    IF id = "" THEN h ELSE ConversationStore_End(h, id)

----------------------------------------------------------------------------
(* ConversationStore at the grain of its memory accesses: the map holds slice
   headers (backing array and length), append writes in place while the
   capacity lasts and moves to a fresh array otherwise, History copies into a
   fresh array, and every method runs between Lock/RLock and the deferred
   Unlock/RUnlock of the one sync.RWMutex. *)

Threads == {"t1", "t2"}
StoreIds == {"A", "B"}

\* the zero value of rag.ChatMessage, and what a caller writes into a slice
ZeroMessage == ChatMessage("", <<>>)
CallerMessage == ChatMessage("system", Hello)

\* the nil slice: what a missing map entry reads as
NilSlice == [arr |-> 0, len |-> 0]

Cap(arrays, s) == IF s.arr = 0 THEN 0 ELSE Len(arrays[s.arr])
Elems(arrays, s) == IF s.arr = 0 THEN <<>> ELSE SubSeq(arrays[s.arr], 1, s.len)

\* the capacities append may give a fresh array that must hold n elements
NewCaps(n) == {n, 2 * n}

\* mutant: the fresh array is not filled with the old elements
GoAppendNoCopy(arrays, s, msg, newCap) ==
    IF s.len < Cap(arrays, s)
    THEN [arrays |-> [arrays EXCEPT ![s.arr][s.len + 1] = msg],
          slice |-> [arr |-> s.arr, len |-> s.len + 1]]
    ELSE [arrays |-> Append(arrays, [i \in 1..newCap |-> IF i = 1 THEN msg ELSE ZeroMessage]),
          slice |-> [arr |-> Len(arrays) + 1, len |-> 1]]

\* append(s, msg): in place when len(s) < cap(s), else into a fresh array of
\* capacity newCap that starts with the elements of s
GoAppend(arrays, s, msg, newCap) ==
    IF s.len < Cap(arrays, s)
    THEN [arrays |-> [arrays EXCEPT ![s.arr][s.len + 1] = msg],
          slice |-> [arr |-> s.arr, len |-> s.len + 1]]
    ELSE LET fresh == [i \in 1..newCap |->
                          IF i <= s.len THEN arrays[s.arr][i]
                          ELSE IF i = s.len + 1 THEN msg ELSE ZeroMessage]
         IN  [arrays |-> Append(arrays, fresh),
              slice |-> [arr |-> Len(arrays) + 1, len |-> s.len + 1]]

\* mutant: History hands out the slice the map holds
CloneAlias(arrays, s) == [arrays |-> arrays, slice |-> s]

\* clone := make([]rag.ChatMessage, len(history)); copy(clone, history)
Clone(arrays, s) ==
    [arrays |-> Append(arrays, Elems(arrays, s)),
     slice |-> [arr |-> Len(arrays) + 1, len |-> s.len]]

\* mutant: the mutex lets everyone in
CanLockAlways(t) == TRUE

\* s.mu.Lock() returns: no writer and no reader holds the mutex
CanLock(t) == sMu.writer = "none" /\ sMu.readers = {}

\* s.mu.RLock() returns: no writer holds the mutex
CanRLock(t) == sMu.writer = "none"

\* the messages the store holds for id
Contents(id) == Elems(sArrays, sMap[id])

AppendOp(id, msg) == [kind |-> "Append", id |-> id, msg |-> msg]
HistoryOp(id) == [kind |-> "History", id |-> id, msg |-> ZeroMessage]
EndOp(id) == [kind |-> "End", id |-> id, msg |-> ZeroMessage]
NoOp == [kind |-> "none", id |-> "", msg |-> ZeroMessage]
NoHistory == [held |-> FALSE, id |-> "", slice |-> NilSlice, lin |-> <<>>]

StoreIdle ==
    /\ sArrays = <<>>
    /\ sMap = [id \in StoreIds |-> NilSlice]
    /\ sMu = [writer |-> "none", readers |-> {}]
    /\ sPc = [t \in Threads |-> "idle"]
    /\ sOp = [t \in Threads |-> NoOp]
    /\ sLoc = [t \in Threads |-> NilSlice]
    /\ sRes = [t \in Threads |-> NoHistory]
    /\ sDone = [t \in Threads |-> 0]
    /\ sLin = [id \in StoreIds |-> <<>>]
    /\ sSeen = [id \in StoreIds |-> <<>>]

NotStore == <<fusionVars, chatVars, wsVars, splitVars, projVars>>

OpsMade == sDone["t1"] + sDone["t2"]

\* a goroutine calls a method of the store
StoreCall(t, op) ==
    /\ sPc[t] = "idle"
    /\ OpsMade < MaxOps
    /\ sOp' = [sOp EXCEPT ![t] = op]
    /\ sPc' = [sPc EXCEPT ![t] = "lock"]
    /\ sDone' = [sDone EXCEPT ![t] = @ + 1]
    /\ UNCHANGED <<sArrays, sMap, sMu, sLoc, sRes, sLin, sSeen, NotStore>>

\* s.mu.Lock() in Append and End, s.mu.RLock() in History
Acquire(t) ==
    /\ sPc[t] = "lock"
    /\ IF sOp[t].kind = "History"
       THEN /\ CanRLock(t)
            /\ sMu' = [sMu EXCEPT !.readers = @ \cup {t}]
       ELSE /\ CanLock(t)
            /\ sMu' = [sMu EXCEPT !.writer = t]
    /\ sPc' = [sPc EXCEPT ![t] = "body1"]
    /\ UNCHANGED <<sArrays, sMap, sOp, sLoc, sRes, sDone, sLin, sSeen, NotStore>>

\* Append: the read of s.histories[conversationID]
AppendRead(t) ==
    /\ sPc[t] = "body1" /\ sOp[t].kind = "Append"
    /\ sLoc' = [sLoc EXCEPT ![t] = sMap[sOp[t].id]]
    /\ sPc' = [sPc EXCEPT ![t] = "body2"]
    /\ UNCHANGED <<sArrays, sMap, sMu, sOp, sRes, sDone, sLin, sSeen, NotStore>>

\* Append: s.histories[conversationID] = append(..., msg)
AppendWrite(t) ==
    /\ sPc[t] = "body2" /\ sOp[t].kind = "Append"
    /\ \E newCap \in NewCaps(sLoc[t].len + 1) :
          LET r == GoAppend(sArrays, sLoc[t], sOp[t].msg, newCap)
          IN  /\ sArrays' = r.arrays
              /\ sMap' = [sMap EXCEPT ![sOp[t].id] = r.slice]
    /\ sLin' = [sLin EXCEPT ![sOp[t].id] = Append(@, sOp[t].msg)]
    /\ sPc' = [sPc EXCEPT ![t] = "unlock"]
    /\ UNCHANGED <<sMu, sOp, sLoc, sRes, sDone, sSeen, NotStore>>

\* History: history := s.histories[conversationID]
HistoryRead(t) ==
    /\ sPc[t] = "body1" /\ sOp[t].kind = "History"
    /\ sLoc' = [sLoc EXCEPT ![t] = sMap[sOp[t].id]]
    /\ sPc' = [sPc EXCEPT ![t] = "body2"]
    /\ UNCHANGED <<sArrays, sMap, sMu, sOp, sRes, sDone, sLin, sSeen, NotStore>>

\* History: return nil when empty, else the clone
HistoryClone(t) ==
    /\ sPc[t] = "body2" /\ sOp[t].kind = "History"
    /\ LET r == IF sLoc[t].len = 0
                THEN [arrays |-> sArrays, slice |-> NilSlice]
                ELSE Clone(sArrays, sLoc[t])
       IN  /\ sArrays' = r.arrays
           /\ sRes' = [sRes EXCEPT ![t] = [held |-> TRUE, id |-> sOp[t].id,
                                           slice |-> r.slice, lin |-> sLin[sOp[t].id]]]
           /\ sSeen' = [sSeen EXCEPT ![sOp[t].id] = Elems(r.arrays, r.slice)]
    /\ sPc' = [sPc EXCEPT ![t] = "unlock"]
    /\ UNCHANGED <<sMap, sMu, sOp, sLoc, sDone, sLin, NotStore>>

\* End: delete(s.histories, conversationID)
EndDelete(t) ==
    /\ sPc[t] = "body1" /\ sOp[t].kind = "End"
    /\ sMap' = [sMap EXCEPT ![sOp[t].id] = NilSlice]
    /\ sLin' = [sLin EXCEPT ![sOp[t].id] = <<>>]
    /\ sSeen' = [sSeen EXCEPT ![sOp[t].id] = <<>>]
    /\ sPc' = [sPc EXCEPT ![t] = "unlock"]
    /\ UNCHANGED <<sArrays, sMu, sOp, sLoc, sRes, sDone, NotStore>>

\* mutant: the method returns with the mutex still held
ReleaseKeepsLock(t) ==
    /\ sPc[t] = "unlock"
    /\ sPc' = [sPc EXCEPT ![t] = "idle"]
    /\ UNCHANGED <<sArrays, sMap, sMu, sOp, sLoc, sRes, sDone, sLin, sSeen, NotStore>>

\* the deferred s.mu.Unlock() / s.mu.RUnlock(), and the return
Release(t) ==
    /\ sPc[t] = "unlock"
    /\ sMu' = IF sOp[t].kind = "History"
              THEN [sMu EXCEPT !.readers = @ \ {t}]
              ELSE [sMu EXCEPT !.writer = "none"]
    /\ sPc' = [sPc EXCEPT ![t] = "idle"]
    /\ UNCHANGED <<sArrays, sMap, sOp, sLoc, sRes, sDone, sLin, sSeen, NotStore>>

\* the caller overwrites the first element of the slice History gave it
CallerOverwrite(t) ==
    /\ sPc[t] = "idle"
    /\ OpsMade < MaxOps
    /\ sRes[t].held /\ sRes[t].slice.len >= 1
    /\ sArrays' = [sArrays EXCEPT ![sRes[t].slice.arr][1] = CallerMessage]
    /\ sDone' = [sDone EXCEPT ![t] = @ + 1]
    /\ UNCHANGED <<sMap, sMu, sPc, sOp, sLoc, sRes, sLin, sSeen, NotStore>>

\* existingHistory = append(existingHistory, req.History...)
CallerAppend(t) ==
    /\ sPc[t] = "idle"
    /\ OpsMade < MaxOps
    /\ sRes[t].held
    /\ \E newCap \in NewCaps(sRes[t].slice.len + 1) :
          LET r == GoAppend(sArrays, sRes[t].slice, CallerMessage, newCap)
          IN  /\ sArrays' = r.arrays
              /\ sRes' = [sRes EXCEPT ![t].slice = r.slice]
    /\ sDone' = [sDone EXCEPT ![t] = @ + 1]
    /\ UNCHANGED <<sMap, sMu, sPc, sOp, sLoc, sLin, sSeen, NotStore>>

----------------------------------------------------------------------------
(* WebSocketHandler: the envelopes it writes *)

ErrorEvent(msg) == [type |-> "error", message |-> msg]
MessageAck(cid, mid) == [type |-> "message_ack", conversationId |-> cid, messageId |-> mid]
StreamChunk(cid, mid, chunk, index) ==
    [type |-> "stream_chunk", conversationId |-> cid, messageId |-> mid,
     chunk |-> chunk, index |-> index]
StreamEnd(cid, mid, answer, sources, tokensUsed) ==
    [type |-> "stream_end", conversationId |-> cid, messageId |-> mid,
     answer |-> answer, sources |-> sources, tokensUsed |-> tokensUsed]
\* conversation_id is left out of the payload when it is empty
SystemNotice(cid, msg) == [type |-> "system_notice", conversationId |-> cid, message |-> msg]

\* splitString(resp.Answer, 200)
ChunkSize == 200

\* a continuation byte 10xxxxxx
IsCont(b, i) == i <= Len(b) /\ b[i] >= 128 /\ b[i] <= 191

\* U+FFFD, what an undecodable byte reads as (utf8.RuneError)
RuneError == 65533

\* the rune that starts at byte i of b and the bytes it takes, as the
\* conversion []rune(text) decodes it; an invalid sequence is one byte wide
RuneAt(b, i) ==
    LET c == b[i]
        lo == IF c = 224 THEN 160 ELSE IF c = 240 THEN 144 ELSE 128
        hi == IF c = 237 THEN 159 ELSE IF c = 244 THEN 143 ELSE 191
        second == i + 1 <= Len(b) /\ b[i + 1] >= lo /\ b[i + 1] <= hi
    IN  IF c < 128 THEN [rune |-> c, width |-> 1]
        ELSE IF c >= 194 /\ c <= 223 /\ IsCont(b, i + 1)
        THEN [rune |-> (c - 192) * 64 + (b[i + 1] - 128), width |-> 2]
        ELSE IF c >= 224 /\ c <= 239 /\ second /\ IsCont(b, i + 2)
        THEN [rune |-> (c - 224) * 4096 + (b[i + 1] - 128) * 64 + (b[i + 2] - 128),
              width |-> 3]
        ELSE IF c >= 240 /\ c <= 244 /\ second /\ IsCont(b, i + 2) /\ IsCont(b, i + 3)
        THEN [rune |-> (c - 240) * 262144 + (b[i + 1] - 128) * 4096
                       + (b[i + 2] - 128) * 64 + (b[i + 3] - 128),
              width |-> 4]
        ELSE [rune |-> RuneError, width |-> 1]

\* the next runes of b from byte i on, at most k of them, added to runes
RECURSIVE DecodeSome(_, _, _, _)
DecodeSome(b, i, runes, k) ==
    IF i > Len(b) \/ k = 0 THEN [next |-> i, runes |-> runes]
    ELSE LET r == RuneAt(b, i)
         IN  DecodeSome(b, i + r.width, Append(runes, r.rune), k - 1)

\* the whole text, decoded 32 runes at a time
RECURSIVE DecodeFrom(_, _, _)
DecodeFrom(b, i, runes) ==
    IF i > Len(b) THEN runes
    ELSE LET d == DecodeSome(b, i, runes, 32)
         IN  DecodeFrom(b, d.next, d.runes)

\* mutant: every byte is taken for a rune
RunesAsBytes(text) == text

\* runes := []rune(text)
Runes(text) == DecodeFrom(text, 1, <<>>)

\* the UTF-8 encoding of one rune; a surrogate or a value past U+10FFFF is
\* written as U+FFFD
EncodeRune(r) ==
    IF r < 128 THEN <<r>>
    ELSE IF r < 2048 THEN <<192 + (r \div 64), 128 + (r % 64)>>
    ELSE IF (r >= 55296 /\ r <= 57343) \/ r > 1114111 THEN <<239, 191, 189>>
    ELSE IF r < 65536
    THEN <<224 + (r \div 4096), 128 + ((r \div 64) % 64), 128 + (r % 64)>>
    ELSE <<240 + (r \div 262144), 128 + ((r \div 4096) % 64),
           128 + ((r \div 64) % 64), 128 + (r % 64)>>

\* the encodings of runes[lo..hi], one after the other
RECURSIVE EncodeRange(_, _, _)
EncodeRange(runes, lo, hi) ==
    IF lo > hi THEN <<>>
    ELSE IF lo = hi THEN EncodeRune(runes[lo])
    ELSE LET mid == (lo + hi) \div 2
         IN  EncodeRange(runes, lo, mid) \o EncodeRange(runes, mid + 1, hi)

\* string(runes[start:end])
String(runes) == EncodeRange(runes, 1, Len(runes))

\* for start := 0; start < len(runes); start += size
RECURSIVE SplitLoop(_, _, _, _)
SplitLoop(runes, size, start, chunks) ==
    IF start >= Len(runes) THEN chunks
    ELSE LET end == IF start + size > Len(runes) THEN Len(runes) ELSE start + size
         IN  SplitLoop(runes, size, start + size,
                       Append(chunks, String(SubSeq(runes, start + 1, end))))

\* mutant: the loop alone, without the cases for short and empty texts
splitStringLoopOnly(text, size0) ==
    SplitLoop(Runes(text), IF size0 <= 0 THEN 200 ELSE size0, 0, <<>>)

splitString(text, size0) ==
    LET size == IF size0 <= 0 THEN 200 ELSE size0
        runes == Runes(text)
    IN  IF Len(runes) = 0 THEN << <<>> >>
        ELSE IF Len(runes) <= size THEN <<text>>
        ELSE SplitLoop(runes, size, 0, <<>>)

SplitIdle ==
    /\ spPhase = "input"
    /\ spText = <<>>
    /\ spSize = 0
    /\ spChunks = <<>>

\* every handler goroutine is between client events
TurnIdle == tPc = [t \in Threads |-> "read"]

NoProjection == [panic |-> FALSE, vectors |-> <<>>, count |-> 0]

ProjIdle ==
    /\ pPhase = "input"
    /\ pVectors = <<>>
    /\ pSvdOk = TRUE
    /\ pOut = NoProjection

----------------------------------------------------------------------------
(* WebSocketHandler: connections, identifiers and client frames *)

Conns == {"c1", "c2"}
ClientConvIds == {"A", "B"}
UuidNames == <<"u1", "u2", "u3", "u4", "u5", "u6">>
ConvIds == ClientConvIds \cup {UuidNames[i] : i \in 1..MaxUuid}

\* the API guide: at most 5 append_message per second and connection
RateLimit == 5

NoReq == [chat |-> ChatRequest(<<>>, "", TRUE, TRUE, 0, <<>>), messageId |-> ""]
NoResp == [answer |-> <<>>, conversationId |-> "", sources |-> <<>>, tokensUsed |-> 0]

\* the payload of start_conversation, typing and end_conversation: the
\* decode error is dropped (_ = json.Unmarshal), leaving the zero value
IdPayloads == {"", "A", "B"}

\* pointer flags: "nil" when the key is absent
AppendPayload(cid, mid, message, uv, uf, topK, history) ==
    [decodable |-> TRUE, conversation_id |-> cid, message_id |-> mid,
     message |-> message, use_vector_search |-> uv, use_full_text |-> uf,
     top_k |-> topK, history |-> history]

Undecodable == [decodable |-> FALSE]

PtrFlags == {"nil", "true", "false"}

\* the append_message payloads: every id, message and inline history with the
\* default retrieval settings, and every retrieval setting on one conversation
AppendPayloads ==
    { AppendPayload(cid, mid, m, "nil", "nil", 0, h) :
        cid \in {"", "A", "B"}, mid \in {"", "m1"}, m \in {<<>>, Hi},
        h \in {<<>>, InlineHistory} }
    \cup { AppendPayload("A", "m1", Hi, uv, uf, k, <<>>) :
             uv \in PtrFlags, uf \in PtrFlags, k \in {0 - 1, 0, 1} }
    \cup {Undecodable}

\* the answers the language model gives in a streaming turn
AnswerOfLen(n) == [i \in 1..n |-> 97 + (i % 26)]
WsAnswers == {AnswerOfLen(0), AnswerOfLen((MaxChunks - 1) * ChunkSize + 1)}

WsVecHits == <<Doc("d1", 2, <<"vec", 1>>), Doc("d2", 1, <<"vec", 2>>)>>
WsFtHits == <<Doc("d2", 2, <<"ft", 1>>), Doc("d3", 1, <<"ft", 2>>)>>
\* every call succeeds; the embedding fails; the language model fails; the
\* deadline has passed before the first call
WsOks ==
    { [s \in Services |-> TRUE],
      [s \in Services |-> s # "embed"],
      [s \in Services |-> s # "llm"],
      [s \in Services |-> FALSE] }
WsEnvs ==
    [ok : WsOks, vecHits : {WsVecHits}, ftHits : {WsFtHits},
     answer : WsAnswers, tokens : {7}]

----------------------------------------------------------------------------
(* WebSocketHandler.Handle: the read loop and the handlers.  A handler step
   that touches nothing but its own connection is taken together with the
   next store operation of the same handler.  The handlers keep no clock:
   window is the observer's count, advanced by the specifications. *)

Others == <<fusionVars, chatVars, storeVars, splitVars, turnVars, projVars>>

\* h.write(conn, envelope): a failed WriteJSON is logged and ignored
Written(c, events) == [out EXCEPT ![c] = @ \o events]

\* the frame answered, the loop is back at conn.ReadMessage()
Answered(c, events, what) ==
    /\ out' = [out EXCEPT ![c] = events]
    /\ last' = [last EXCEPT ![c] = what]
    /\ UNCHANGED <<pc, req, resp>>

\* json.Unmarshal(data, &envelope) fails: sendError, continue
ReadMalformed(c) ==
    /\ pc[c] = "read"
    /\ Answered(c, <<ErrorEvent("bad envelope")>>, "malformed")
    /\ UNCHANGED <<histories, uuids, Others>>

\* default: sendError
ReadUnknownType(c) ==
    /\ pc[c] = "read"
    /\ Answered(c, <<ErrorEvent("unknown event type")>>, "unknown_type")
    /\ UNCHANGED <<histories, uuids, Others>>

handleStartConversation(c, id) ==
    /\ pc[c] = "read"
    /\ id = "" => uuids < MaxUuid
    /\ LET cid == IF id = "" THEN UuidNames[uuids + 1] ELSE id
       IN  Answered(c, <<SystemNotice(cid, "conversation_started")>>, "start")
    /\ uuids' = IF id = "" THEN uuids + 1 ELSE uuids
    /\ UNCHANGED <<histories, Others>>

handleTyping(c, id) ==
    /\ pc[c] = "read"
    /\ Answered(c, <<SystemNotice(id, "typing")>>, "typing")
    /\ UNCHANGED <<histories, uuids, Others>>

handleEndConversation(c, id) ==
    /\ pc[c] = "read"
    /\ histories' = CloseConversation(histories, id)
    /\ Answered(c, <<SystemNotice(id, "conversation_closed")>>, "end")
    /\ UNCHANGED <<uuids, Others>>

PtrValue(ptr, default) == IF ptr = "nil" THEN default ELSE ptr = "true"

\* mutant: the empty message is let through
EmptyMessageNever(p) == FALSE

\* if req.Message == ""
EmptyMessage(p) == p.message = <<>>

\* mutant: nothing is written before the call of Chat
AckNotWritten(c, cid, mid) == out' = [out EXCEPT ![c] = <<>>]

\* h.write(conn, message_ack), the first envelope of the turn
AckWritten(c, cid, mid) == out' = [out EXCEPT ![c] = <<MessageAck(cid, mid)>>]

\* mutant: the inline history is put in front of the session history
CombinedHistoryInlineFirst(session, inline) == inline \o session

\* existingHistory = append(existingHistory, req.History...)
CombinedHistory(session, inline) == session \o inline

\* handleAppendMessage up to the call of h.service.Chat: decode, the empty
\* message check, the identifiers, message_ack, the search flags and the
\* session history
handleAppendMessage(c, p) ==
    /\ pc[c] = "read"
    /\ IF ~p.decodable
       THEN /\ Answered(c, <<ErrorEvent("bad request data")>>, "bad_payload")
            /\ UNCHANGED uuids
       ELSE IF EmptyMessage(p)
       THEN /\ Answered(c, <<ErrorEvent("message is required")>>, "empty_message")
            /\ UNCHANGED uuids
       ELSE LET newC == IF p.conversation_id = "" THEN 1 ELSE 0
                newM == IF p.message_id = "" THEN 1 ELSE 0
            IN  /\ uuids + newC + newM <= MaxUuid
                /\ LET cid == IF newC = 1 THEN UuidNames[uuids + 1] ELSE p.conversation_id
                       mid == IF newM = 1 THEN UuidNames[uuids + newC + 1] ELSE p.message_id
                       uv == PtrValue(p.use_vector_search, TRUE)
                       uf == PtrValue(p.use_full_text, TRUE)
                       both == ~uv /\ ~uf
                       existingHistory == CombinedHistory(ConversationHistory(histories, cid),
                                                          p.history)
                   IN  /\ Stored(histories) + 2 <= MaxHist
                       /\ AckWritten(c, cid, mid)
                       /\ req' = [req EXCEPT ![c] =
                               [chat |-> ChatRequest(p.message, cid, uv \/ both, uf \/ both,
                                                     p.top_k, existingHistory),
                                messageId |-> mid]]
                       /\ pc' = [pc EXCEPT ![c] = "chat"]
                       /\ last' = [last EXCEPT ![c] = "turn"]
                       /\ UNCHANGED resp
                /\ uuids' = uuids + newC + newM
    /\ UNCHANGED <<histories, Others>>

\* Chat panicked: Handle unwinds, the deferred conn.Close() runs and the
\* recovery middleware ends the request
ChatPanicked(c) ==
    /\ pc' = [pc EXCEPT ![c] = "closed"]
    /\ last' = [last EXCEPT ![c] = "panic"]
    /\ req' = [req EXCEPT ![c] = NoReq]
    /\ UNCHANGED <<out, resp, histories>>

\* mutant: the error is logged and the turn ends without an error event
ChatFailedSilent(c) ==
    /\ pc' = [pc EXCEPT ![c] = "read"]
    /\ last' = [last EXCEPT ![c] = "turn_err"]
    /\ req' = [req EXCEPT ![c] = NoReq]
    /\ UNCHANGED <<out, resp, histories>>

\* mutant: the user's message is recorded although the turn failed
ChatFailedRecordsUser(c) ==
    /\ out' = Written(c, <<ErrorEvent("failed to generate the answer")>>)
    /\ histories' = AppendConversationMessage(histories, req[c].chat.conversationId,
                                              ChatMessage("user", req[c].chat.message))
    /\ pc' = [pc EXCEPT ![c] = "read"]
    /\ last' = [last EXCEPT ![c] = "turn_err"]
    /\ req' = [req EXCEPT ![c] = NoReq]
    /\ UNCHANGED resp

\* if err != nil { sendError; return }
ChatFailed(c) ==
    /\ out' = Written(c, <<ErrorEvent("failed to generate the answer")>>)
    /\ pc' = [pc EXCEPT ![c] = "read"]
    /\ last' = [last EXCEPT ![c] = "turn_err"]
    /\ req' = [req EXCEPT ![c] = NoReq]
    /\ UNCHANGED <<resp, histories>>

\* resp is the response of the turn
ChatReturned(c, r) ==
    /\ resp' = [resp EXCEPT ![c] =
            [answer |-> r.answer, conversationId |-> r.conversationId,
             sources |-> r.sources, tokensUsed |-> r.tokensUsed]]
    /\ pc' = [pc EXCEPT ![c] = "appendUser"]
    /\ last' = [last EXCEPT ![c] = "turn_ok"]
    /\ UNCHANGED <<out, req, histories>>

\* resp, err := h.service.Chat(ctx, ...) under the 2-minute context, and the
\* error branch
CallChat(c, env) ==
    /\ pc[c] = "chat"
    /\ LET r == Chat(req[c].chat, env)
       IN  IF r.outcome = "panic" THEN ChatPanicked(c)
           ELSE IF r.outcome = "error" THEN ChatFailed(c)
           ELSE ChatReturned(c, r)
    /\ UNCHANGED <<uuids, Others>>

\* mutant: the inline history of the payload is stored with the user's message
AppendUserWithInline(c) ==
    /\ pc[c] = "appendUser"
    /\ histories' = [histories EXCEPT ![req[c].chat.conversationId] =
                        Append(req[c].chat.history, ChatMessage("user", req[c].chat.message))]
    /\ pc' = [pc EXCEPT ![c] = "stream"]
    /\ UNCHANGED <<uuids, req, resp, out, last, Others>>

\* h.service.AppendConversationMessage(req.ConversationID, user message)
AppendUser(c) ==
    /\ pc[c] = "appendUser"
    /\ histories' = AppendConversationMessage(histories, req[c].chat.conversationId,
                                              ChatMessage("user", req[c].chat.message))
    /\ pc' = [pc EXCEPT ![c] = "stream"]
    /\ UNCHANGED <<uuids, req, resp, out, last, Others>>

\* the stream_chunk loop and stream_end
StreamAnswer(c) ==
    /\ pc[c] = "stream"
    /\ LET chunks == splitString(resp[c].answer, ChunkSize)
           events == [i \in 1..Len(chunks) |->
                        StreamChunk(resp[c].conversationId, req[c].messageId,
                                    chunks[i], i - 1)]
       IN  out' = Written(c, events \o
                     <<StreamEnd(resp[c].conversationId, req[c].messageId,
                                 resp[c].answer, resp[c].sources, resp[c].tokensUsed)>>)
    /\ pc' = [pc EXCEPT ![c] = "appendAssistant"]
    /\ UNCHANGED <<histories, uuids, req, resp, last, Others>>

\* mutant: an empty answer is not stored
AppendAssistantSkipsEmpty(c) ==
    /\ pc[c] = "appendAssistant"
    /\ histories' = IF resp[c].answer = <<>> THEN histories
                    ELSE AppendConversationMessage(histories, req[c].chat.conversationId,
                                                   ChatMessage("assistant", resp[c].answer))
    /\ pc' = [pc EXCEPT ![c] = "read"]
    /\ req' = [req EXCEPT ![c] = NoReq]
    /\ resp' = [resp EXCEPT ![c] = NoResp]
    /\ UNCHANGED <<uuids, out, last, Others>>

\* h.service.AppendConversationMessage(req.ConversationID, assistant answer)
AppendAssistant(c) ==
    /\ pc[c] = "appendAssistant"
    /\ histories' = AppendConversationMessage(histories, req[c].chat.conversationId,
                                              ChatMessage("assistant", resp[c].answer))
    /\ pc' = [pc EXCEPT ![c] = "read"]
    /\ req' = [req EXCEPT ![c] = NoReq]
    /\ resp' = [resp EXCEPT ![c] = NoResp]
    /\ UNCHANGED <<uuids, out, last, Others>>

\* conn.ReadMessage() returns an error: break, conn.Close()
ReadError(c) ==
    /\ pc[c] = "read"
    /\ pc' = [pc EXCEPT ![c] = "closed"]
    /\ last' = [last EXCEPT ![c] = "read_error"]
    /\ UNCHANGED <<histories, uuids, req, resp, out, Others>>

----------------------------------------------------------------------------
(* SpecChat: one POST /chat request against every bounded environment *)

HitScores == 1..2
VecHitLists ==
    { [i \in 1..Len(s) |-> Doc(s[i][1], s[i][2], <<"vec", i>>)] :
        s \in SeqsUpTo({"d1", "d2"} \X HitScores, MaxHits) }
FtHitLists ==
    { [i \in 1..Len(s) |-> Doc(s[i][1], s[i][2], <<"ft", i>>)] :
        s \in SeqsUpTo({"d2", "d3"} \X HitScores, MaxHits) }

Answer1 == <<111, 107>>

\* indexes that hold more hits than the default topK asks for
LongVecHits ==
    <<Doc("v1", 2, <<"vec", 1>>), Doc("v2", 2, <<"vec", 2>>), Doc("v3", 2, <<"vec", 3>>),
      Doc("v4", 1, <<"vec", 4>>), Doc("v5", 1, <<"vec", 5>>), Doc("v6", 1, <<"vec", 6>>)>>
LongFtHits ==
    <<Doc("v6", 2, <<"ft", 1>>), Doc("f1", 2, <<"ft", 2>>), Doc("f2", 1, <<"ft", 3>>)>>

\* a full-text index whose best hit is a document the vector index may hold
\* with a lower score
DupFtHits == <<Doc("d2", 2, <<"ft", 1>>), Doc("d3", 2, <<"ft", 2>>)>>

ChatEnvs ==
    [ok : [Services -> BOOLEAN], vecHits : VecHitLists \cup {LongVecHits},
     ftHits : FtHitLists \cup {LongFtHits, DupFtHits}, answer : {Answer1}, tokens : {7}]

ChatRequests ==
    { ChatRequest(Hi, x[1], uv, uf, k, x[2]) :
        x \in {<<"", <<>>>>, <<"A", InlineHistory>>},
        uv \in BOOLEAN, uf \in BOOLEAN, k \in TopKs }
    \cup {ChatRequest(<<>>, "", TRUE, TRUE, 0, <<>>)}

NoEnv == [ok |-> [s \in Services |-> TRUE], vecHits |-> <<>>, ftHits |-> <<>>,
          answer |-> <<>>, tokens |-> 0]
NoChat == [status |-> 0, chat |-> [outcome |-> "none", calls |-> <<>>]]

ChatIdle ==
    /\ hPhase = "request"
    /\ hReq = ChatRequest(Hi, "", TRUE, TRUE, 0, <<>>)
    /\ hEnv = NoEnv
    /\ hRes = NoChat

\* NewConversationStore() and freshly upgraded connections
WsIdle ==
    /\ histories = [id \in ConvIds |-> <<>>]
    /\ uuids = 0
    /\ pc = [c \in Conns |-> "read"]
    /\ req = [c \in Conns |-> NoReq]
    /\ resp = [c \in Conns |-> NoResp]
    /\ out = [c \in Conns |-> <<>>]
    /\ last = [c \in Conns |-> "none"]
    /\ window = [c \in Conns |-> 0]

InitChat ==
    /\ hPhase = "request"
    /\ hReq \in ChatRequests
    /\ hEnv \in ChatEnvs
    /\ hRes = NoChat
    /\ FusionIdle
    /\ WsIdle
    /\ StoreIdle
    /\ SplitIdle
    /\ TurnIdle
    /\ ProjIdle

ServeChat ==
    /\ hPhase = "request"
    /\ hRes' = HandlerChat(hReq, hEnv)
    /\ hPhase' = "done"
    /\ UNCHANGED <<hReq, hEnv>>
    /\ UNCHANGED <<fusionVars, wsVars, storeVars, splitVars, turnVars, projVars>>

NextChat == ServeChat

SpecChat == InitChat /\ [][NextChat]_vars

\* the request passed binding and the service was called
Served == hPhase = "done" /\ hRes.status # 400

LlmCalls(calls) == {i \in 1..Len(calls) : calls[i].svc = "llm"}
Called(calls, svc) == \E i \in 1..Len(calls) : calls[i].svc = svc

\* the sources that fail when consulted
VectorFailed == ~hEnv.ok["embed"] \/ ~hEnv.ok["vector"]
FullTextFailed == ~hEnv.ok["fulltext"]

(* C3 (as claimed): Chat returns an error exactly when the language-model
   call fails; whatever retrieval calls fail, the language model is called
   exactly once, and with no grounding documents when every consulted source
   failed. *)
C3_OnlyLlmFailureFails ==
    Served =>
        LET calls == hRes.chat.calls
        IN  /\ Cardinality(LlmCalls(calls)) = 1
            /\ (hRes.chat.outcome = "error") <=> ~hEnv.ok["llm"]
            /\ hRes.chat.outcome \in {"ok", "error"}
            /\ \A i \in LlmCalls(calls) :
                   /\ VectorFailed => \A k \in 1..Len(calls[i].documents) :
                                         calls[i].documents[k].content[1] # "vec"
                   /\ FullTextFailed => \A k \in 1..Len(calls[i].documents) :
                                           calls[i].documents[k].content[1] # "ft"

(* C18: a Chat request whose topK is 0 is processed with topK = 5: every
   source that is queried is asked for 5 results and at most 5 sources are
   returned; any other topK is handed to the sources unchanged and bounds
   the sources returned. *)
C18_TopKDefaultsToFive ==
    Served =>
        LET calls == hRes.chat.calls
            k == IF hReq.topK = 0 THEN 5 ELSE hReq.topK
        IN  /\ \A i \in 1..Len(calls) :
                   calls[i].svc \in {"vector", "fulltext"} => calls[i].limit = k
            /\ hRes.chat.outcome = "ok" => Len(hRes.chat.sources) <= k

\* a request with topK 0 against indexes holding nine hits, eight of them
\* distinct, came back with five sources
C18_Witness ==
    /\ Served
    /\ hReq.topK = 0
    /\ hReq.useVectorSearch /\ hReq.useFullText
    /\ hEnv.vecHits = LongVecHits /\ hEnv.ftHits = LongFtHits
    /\ hRes.chat.outcome = "ok"
    /\ Len(hRes.chat.sources) = 5
    /\ \E i \in 1..Len(hRes.chat.calls) :
          hRes.chat.calls[i].svc = "vector" /\ hRes.chat.calls[i].limit = 5

----------------------------------------------------------------------------
(* SpecFusion: deduplicateAndRank applied to every bounded candidate list *)

\* the candidate lists: any ids and scores; the content of a candidate names
\* its position in the list, so that every candidate is told apart
FusionInputs ==
    { [i \in 1..Len(s) |-> Doc(s[i][1], s[i][2], <<"pos", i>>)] :
        s \in SeqsUpTo(DocIds \X Scores, MaxDocs) }

InitFusion ==
    /\ fPhase = "input"
    /\ fDocs \in FusionInputs
    /\ fTopK \in TopKs
    /\ fOut = NoResult
    /\ ChatIdle
    /\ WsIdle
    /\ StoreIdle
    /\ SplitIdle
    /\ TurnIdle
    /\ ProjIdle

Rank ==
    /\ fPhase = "input"
    /\ fOut' = deduplicateAndRank(fDocs, fTopK)
    /\ fPhase' = "done"
    /\ UNCHANGED <<fDocs, fTopK>>
    /\ UNCHANGED <<chatVars, wsVars, storeVars, splitVars, turnVars, projVars>>

NextFusion == Rank

SpecFusion == InitFusion /\ [][NextFusion]_vars

\* the fusion returned (it did not panic)
Ranked == fPhase = "done" /\ ~fOut.panic

Ids(s) == {s[i].id : i \in 1..Len(s)}

Min(a, b) == IF a < b THEN a ELSE b

----------------------------------------------------------------------------
(* Spec: the server with its connections and the shared session store *)

Init ==
    /\ WsIdle
    /\ FusionIdle
    /\ ChatIdle
    /\ StoreIdle
    /\ SplitIdle
    /\ TurnIdle
    /\ ProjIdle

\* c1 sends every kind of frame; c2 is a second client of the same server, which
\* ends conversation A whenever it likes and may drop its connection
Observed == {"c1"}
AppendPayloadsOf(c) ==
    IF c \in Observed THEN AppendPayloads ELSE {}
EndPayloadsOf(c) == IF c \in Observed THEN IdPayloads ELSE {"A"}

Next ==
    \/ \E c \in Observed : ReadMalformed(c) /\ UNCHANGED window
    \/ \E c \in Observed : ReadUnknownType(c) /\ UNCHANGED window
    \/ \E c \in Observed, id \in {"", "A"} :
          handleStartConversation(c, id) /\ UNCHANGED window
    \/ \E c \in Observed, id \in {"", "A"} : handleTyping(c, id) /\ UNCHANGED window
    \/ \E c \in Conns : \E id \in EndPayloadsOf(c) :
          handleEndConversation(c, id) /\ UNCHANGED window
    \/ \E c \in Conns : \E p \in AppendPayloadsOf(c) :
          handleAppendMessage(c, p) /\ UNCHANGED window
    \/ \E c \in Conns, env \in WsEnvs : CallChat(c, env) /\ UNCHANGED window
    \/ \E c \in Conns : AppendUser(c) /\ UNCHANGED window
    \/ \E c \in Conns : StreamAnswer(c) /\ UNCHANGED window
    \/ \E c \in Conns : AppendAssistant(c) /\ UNCHANGED window
    \/ \E c \in Conns : ReadError(c) /\ UNCHANGED window

Spec == Init /\ [][Next]_vars

----------------------------------------------------------------------------
(* SpecSolo: two connections that never share a conversation id: c1 works on
   conversation A and on the conversations it lets the server name, c2 on
   conversation B. *)

SoloIds(c) == IF c = "c1" THEN {"", "A"} ELSE {"B"}

\* c1 sends plain turns, a turn with inline history, a turn with a negative
\* top_k and a turn without a conversation id; c2 sends plain turns
SoloPayloads(c) ==
    IF c = "c1"
    THEN { AppendPayload("A", "m1", Hi, "nil", "nil", 0, <<>>),
           AppendPayload("A", "m1", Hello, "nil", "nil", 0, InlineHistory),
           AppendPayload("A", "m1", Hi, "nil", "nil", 0 - 1, <<>>),
           AppendPayload("", "m1", Hi, "nil", "nil", 0, <<>>) }
    ELSE { AppendPayload("B", "m1", Hi, "nil", "nil", 0, <<>>) }

NextSolo ==
    \/ \E c \in Conns : \E id \in SoloIds(c) :
          handleEndConversation(c, id) /\ UNCHANGED window
    \/ \E c \in Conns : \E p \in SoloPayloads(c) :
          handleAppendMessage(c, p) /\ UNCHANGED window
    \/ \E c \in Conns, env \in WsEnvs : CallChat(c, env) /\ UNCHANGED window
    \/ \E c \in Conns : AppendUser(c) /\ UNCHANGED window
    \/ \E c \in Conns : StreamAnswer(c) /\ UNCHANGED window
    \/ \E c \in Conns : AppendAssistant(c) /\ UNCHANGED window

SpecSolo == Init /\ [][NextSolo]_vars

\* the connection that works on conversation id
Owner(id) == IF id = "B" THEN "c2" ELSE "c1"

(* C27: when no conversation id is shared between connections, then whenever
   the connection working on an id is between client events the history of
   the id has even length and alternates user, assistant, user, assistant;
   and after a successful turn it ends with the turn's user message followed
   by the answer the turn's stream_end carried. *)
C27_AlternatesWhenUnshared ==
    \A id \in ConvIds :
        pc[Owner(id)] \in {"read", "closed"} =>
            LET h == histories[id]
                c == Owner(id)
                n == Len(out[c])
            IN  /\ Len(h) % 2 = 0
                /\ \A i \in 1..Len(h) :
                       h[i].role = IF i % 2 = 1 THEN "user" ELSE "assistant"
                /\ (last[c] = "turn_ok" /\ out[c][1].conversationId = id)
                   => /\ Len(h) >= 2
                      /\ h[Len(h)] = ChatMessage("assistant", out[c][n].answer)

\* c1 is between events after two turns on conversation A, the second of
\* which had an empty answer, while c2 is in the middle of a turn on B
C27_Witness ==
    /\ pc["c1"] = "read"
    /\ last["c1"] = "turn_ok"
    /\ Len(histories["A"]) = 4
    /\ histories["A"][1] = ChatMessage("user", Hello)
    /\ histories["A"][3] = ChatMessage("user", Hi)
    /\ histories["A"][4] = ChatMessage("assistant", <<>>)
    /\ pc["c2"] = "chat"

----------------------------------------------------------------------------
(* SpecLive: one connection sending turns and ending its conversation, with
   the progress a running handler makes: a handler goroutine that is inside
   a turn takes its next step, the Chat call returning because each external
   call returns or is cut off by the context's 2-minute deadline.  Nothing
   obliges the client to send a frame. *)

\* turns with the default top_k, with inline history and with a negative top_k
LivePayloads ==
    { AppendPayload("A", "m1", Hi, "nil", "nil", 0, <<>>),
      AppendPayload("", "", Hello, "nil", "nil", 0, InlineHistory),
      AppendPayload("A", "m1", Hi, "nil", "nil", 0 - 1, <<>>) }

\* the environments of a turn, with answers of one chunk
LiveEnvs ==
    [ok : WsOks, vecHits : {WsVecHits}, ftHits : {WsFtHits},
     answer : {AnswerOfLen(0), Answer1}, tokens : {7}]

TurnStep(c) ==
    /\ \/ \E env \in LiveEnvs : CallChat(c, env)
       \/ AppendUser(c)
       \/ StreamAnswer(c)
       \/ AppendAssistant(c)
    /\ UNCHANGED window

NextLive ==
    \/ \E c \in Observed, p \in LivePayloads : handleAppendMessage(c, p) /\ UNCHANGED window
    \/ \E c \in Observed : handleEndConversation(c, "A") /\ UNCHANGED window
    \/ \E c \in Observed : TurnStep(c)

SpecLive == Init /\ [][NextLive]_vars /\ \A c \in Observed : WF_vars(TurnStep(c))

\* the stream_end and error events among the envelopes o
Closing(o) == {i \in 1..Len(o) : o[i].type \in {"stream_end", "error"}}

(* C25 (as claimed): every turn that passed validation and stands in front of
   the Chat call comes to an end: its connection gets back to reading the
   next client event with exactly one stream_end or error written for the
   turn. *)
C25_TurnTerminates ==
    \A c \in Conns :
        (pc[c] = "chat") ~> (pc[c] = "read" /\ Cardinality(Closing(out[c])) = 1)

----------------------------------------------------------------------------
(* ChatbotService.ProjectVectors and projectTo2D.  Coordinates are floating
   point numbers; a coordinate is kept as what it was computed from:
   <<"svd", i, a>> is the entry (i, a) of the product of the centred matrix
   with the principal components, <<"raw", i, v>> the value v copied from
   point i when the factorization fails. *)

\* rag.DocumentVector
DocumentVector(id, vector, content, metadata) ==
    [id |-> id, vector |-> vector, content |-> content, metadata |-> metadata]

\* points: the embeddings of the vectors that have one, in order
RECURSIVE Points(_, _)
Points(vectors, i) ==
    IF i > Len(vectors) THEN <<>>
    ELSE IF Len(vectors[i].vector) = 0 THEN Points(vectors, i + 1)
    ELSE <<vectors[i].vector>> \o Points(vectors, i + 1)

\* projectTo2D.  means and data are indexed by the columns of points[0], so a
\* point of another length is an index out of range; the thin factorization
\* of a rows x cols matrix gives V with min(rows, cols) columns, and
\* v.Slice(0, cols, 0, targetDims) panics when V has fewer than targetDims
\* columns
projectTo2D(points, svdOk) ==
    LET rows == Len(points)
        cols == Len(points[1])
        targetDims == IF cols < 2 THEN 1 ELSE 2
        vCols == IF rows < cols THEN rows ELSE cols
    IN  IF rows = 0 THEN [panic |-> FALSE, rows |-> <<>>]
        ELSE IF \E i \in 1..rows : Len(points[i]) # cols
        THEN [panic |-> TRUE, rows |-> <<>>]
        ELSE IF ~svdOk
        THEN [panic |-> FALSE,
              rows |-> [i \in 1..rows |->
                          <<<<"raw", i, points[i][1]>>,
                            <<"raw", i, IF cols = 1 THEN 0 ELSE points[i][2]>>>>]]
        ELSE IF targetDims > vCols
        THEN [panic |-> TRUE, rows |-> <<>>]
        ELSE [panic |-> FALSE,
              rows |-> [i \in 1..rows |->
                          <<<<"svd", i, 1>>,
                            IF targetDims = 2 THEN <<"svd", i, 2>> ELSE <<"raw", i, 0>>>>]]

\* for i, coords := range projection: idx skips the vectors without embedding
RECURSIVE PairLoop(_, _, _, _, _)
PairLoop(projection, vectors, i, idx0, result) ==
    IF i > Len(projection) THEN result
    ELSE LET skip == {k \in idx0..Len(vectors) : Len(vectors[k].vector) # 0}
             idx == IF skip = {} THEN Len(vectors) + 1
                    ELSE CHOOSE k \in skip : \A m \in skip : k <= m
         IN  IF idx > Len(vectors) THEN result
             ELSE PairLoop(projection, vectors, i + 1, idx + 1,
                           Append(result,
                                  [id |-> vectors[idx].id,
                                   x |-> projection[i][1],
                                   y |-> projection[i][2],
                                   content |-> vectors[idx].content,
                                   metadata |-> vectors[idx].metadata]))

\* ProjectVectors once QueryDocumentVectors has returned vectors
ProjectVectors(vectors, svdOk) ==
    LET points == Points(vectors, 1)
    IN  IF Len(vectors) = 0 \/ Len(points) = 0 THEN NoProjection
        ELSE LET projection == projectTo2D(points, svdOk)
                 result == PairLoop(projection.rows, vectors, 1, 1, <<>>)
             IN  IF projection.panic
                 THEN [panic |-> TRUE, vectors |-> <<>>, count |-> 0]
                 ELSE [panic |-> FALSE, vectors |-> result, count |-> Len(result)]

----------------------------------------------------------------------------
(* SpecProject: ProjectVectors applied to every bounded batch.  The vectors
   of a batch come from one collection, so those that have an embedding have
   the same dimension. *)

\* the embedding of dimension d stored for the vector at position i
Embedding(d, i) == [j \in 1..d |-> i + j]

\* batches: each vector has one of two ids and has an embedding or not
Batches ==
    { [i \in 1..Len(s) |->
          DocumentVector(s[i][1], IF s[i][2] THEN Embedding(d, i) ELSE <<>>,
                         <<"content", i>>, <<"metadata", i>>)] :
        s \in SeqsUpTo({"p1", "p2"} \X BOOLEAN, MaxBatch), d \in 1..MaxDim }

InitProject ==
    /\ pPhase = "input"
    /\ pVectors \in Batches
    /\ pSvdOk \in BOOLEAN
    /\ pOut = NoProjection
    /\ FusionIdle
    /\ ChatIdle
    /\ WsIdle
    /\ StoreIdle
    /\ SplitIdle
    /\ TurnIdle

Project ==
    /\ pPhase = "input"
    /\ pOut' = ProjectVectors(pVectors, pSvdOk)
    /\ pPhase' = "done"
    /\ UNCHANGED <<pVectors, pSvdOk>>
    /\ UNCHANGED <<fusionVars, chatVars, wsVars, storeVars, splitVars, turnVars>>

NextProject == Project

SpecProject == InitProject /\ [][NextProject]_vars

\* the positions of the vectors of the batch that have an embedding
NonEmpty == {i \in 1..Len(pVectors) : Len(pVectors[i].vector) # 0}

\* the position in the batch of the n-th vector that has an embedding
NthNonEmpty(n) ==
    CHOOSE i \in NonEmpty : Cardinality({k \in NonEmpty : k <= i}) = n

(* C22 (as claimed): for every batch ProjectVectors returns one point per
   vector that has an embedding, in the order of the batch: the i-th point
   carries the i-th row of the projection and the id, content and metadata of
   the i-th vector that has an embedding, and Count is the number of
   points. *)
C22_OnePointPerEmbedding ==
    pPhase = "done" =>
        /\ ~pOut.panic
        /\ Len(pOut.vectors) = Cardinality(NonEmpty)
        /\ pOut.count = Len(pOut.vectors)
        /\ \A n \in 1..Len(pOut.vectors) :
               LET v == pVectors[NthNonEmpty(n)]
                   q == pOut.vectors[n]
               IN  /\ q.id = v.id
                   /\ q.content = v.content
                   /\ q.metadata = v.metadata
                   /\ q.x[2] = n
                   /\ q.y[2] = n

----------------------------------------------------------------------------
(* SpecRate: one connection sending turns, watched by a clock.  window[c]
   counts the append_message frames the handler of c has read since the
   current second began. *)

RatePayloads ==
    { AppendPayload("A", mid, Hi, "nil", "nil", 0, <<>>) : mid \in {"m1", "m2"} }

Counted(c) ==
    /\ window[c] <= RateLimit
    /\ window' = [window EXCEPT ![c] = @ + 1]

\* a second of wall-clock time ends
Tick ==
    /\ \E c \in Conns : window[c] > 0
    /\ window' = [c \in Conns |-> 0]
    /\ UNCHANGED <<histories, uuids, pc, req, resp, out, last, Others>>

NextRate ==
    \/ \E c \in Observed, p \in RatePayloads : handleAppendMessage(c, p) /\ Counted(c)
    \/ \E c \in Observed, env \in WsEnvs : CallChat(c, env) /\ UNCHANGED window
    \/ \E c \in Observed : AppendUser(c) /\ UNCHANGED window
    \/ \E c \in Observed : StreamAnswer(c) /\ UNCHANGED window
    \/ \E c \in Observed : AppendAssistant(c) /\ UNCHANGED window
    \/ \E c \in Observed : handleEndConversation(c, "A") /\ UNCHANGED window
    \/ Tick

SpecRate == Init /\ [][NextRate]_vars

----------------------------------------------------------------------------
(* SpecStore: two goroutines calling the session store concurrently *)

ThreadNo(t) == IF t = "t1" THEN 1 ELSE 2

\* the message a goroutine appends: told apart by goroutine and call number
MessageOf(t) == ChatMessage("user", <<ThreadNo(t), sDone[t] + 1>>)

\* t1 writes to both conversations and ends A; t2 works on conversation A and
\* reads it
OpsOf(t) ==
    IF t = "t1"
    THEN {AppendOp("A", MessageOf(t)), AppendOp("B", MessageOf(t)), EndOp("A")}
    ELSE {AppendOp("A", MessageOf(t)), HistoryOp("A"), EndOp("A")}

InitStore ==
    /\ StoreIdle
    /\ SplitIdle
    /\ TurnIdle
    /\ ProjIdle
    /\ WsIdle
    /\ FusionIdle
    /\ ChatIdle

NextStore ==
    \/ \E t \in Threads : \E op \in OpsOf(t) : StoreCall(t, op) /\ UNCHANGED tPc
    \/ \E t \in Threads : Acquire(t) /\ UNCHANGED tPc
    \/ \E t \in Threads : AppendRead(t) /\ UNCHANGED tPc
    \/ \E t \in Threads : AppendWrite(t) /\ UNCHANGED tPc
    \/ \E t \in Threads : HistoryRead(t) /\ UNCHANGED tPc
    \/ \E t \in Threads : HistoryClone(t) /\ UNCHANGED tPc
    \/ \E t \in Threads : EndDelete(t) /\ UNCHANGED tPc
    \/ \E t \in Threads : Release(t) /\ UNCHANGED tPc
    \/ \E t \in Threads : CallerOverwrite(t) /\ UNCHANGED tPc
    \/ \E t \in Threads : CallerAppend(t) /\ UNCHANGED tPc

SpecStore == InitStore /\ [][NextStore]_vars

----------------------------------------------------------------------------
(* SpecTurn: two handler goroutines running turns and end_conversation on
   conversation A, with the store at the grain of its mutex and the calls of
   Chat to the external services one at a time.  tPc[t] names the store call
   the handler is making ("history", "appendUser", "appendAssistant", "end"),
   the external call that is in flight, or "read" between client events. *)

\* the external calls of Chat, in the order it makes them
NetCalls == <<"embed", "vector", "fulltext", "llm">>
InFlight(t) == \E i \in 1..Len(NetCalls) : tPc[t] = NetCalls[i]

\* the message a turn stores: told apart by goroutine and call number
TurnMessage(t, role) == ChatMessage(role, <<ThreadNo(t), sDone[t] + 1>>)

\* existingHistory := h.service.ConversationHistory(req.ConversationID)
TurnBegin(t) ==
    /\ tPc[t] = "read"
    /\ StoreCall(t, HistoryOp("A"))
    /\ tPc' = [tPc EXCEPT ![t] = "history"]

\* History has returned; h.service.Chat starts with the embedding request
ChatBegin(t) ==
    /\ tPc[t] = "history"
    /\ sPc[t] = "idle"
    /\ tPc' = [tPc EXCEPT ![t] = "embed"]
    /\ UNCHANGED <<storeVars, NotStore>>

\* the external call in flight returns, with a result or with an error: a
\* failed embedding skips the vector search, a failed search is logged, and a
\* failed completion ends the turn; after the completion the user's message
\* is appended
NetReturn(t, ok) ==
    /\ InFlight(t)
    /\ IF tPc[t] = "llm"
       THEN IF ok
            THEN /\ StoreCall(t, AppendOp("A", TurnMessage(t, "user")))
                 /\ tPc' = [tPc EXCEPT ![t] = "appendUser"]
            ELSE /\ tPc' = [tPc EXCEPT ![t] = "read"]
                 /\ UNCHANGED <<storeVars, NotStore>>
       ELSE /\ tPc' = [tPc EXCEPT ![t] =
                         IF tPc[t] = "embed" THEN (IF ok THEN "vector" ELSE "fulltext")
                         ELSE IF tPc[t] = "vector" THEN "fulltext"
                         ELSE "llm"]
            /\ UNCHANGED <<storeVars, NotStore>>

\* the user's message is stored; the chunks and stream_end are written and
\* the answer is appended
StreamBegin(t) ==
    /\ tPc[t] = "appendUser"
    /\ StoreCall(t, AppendOp("A", TurnMessage(t, "assistant")))
    /\ tPc' = [tPc EXCEPT ![t] = "appendAssistant"]

\* h.service.CloseConversation(req.ConversationID)
EndConversation(t) ==
    /\ tPc[t] = "read"
    /\ StoreCall(t, EndOp("A"))
    /\ tPc' = [tPc EXCEPT ![t] = "end"]

\* the last store call of the handler has returned: back to conn.ReadMessage()
TurnEnd(t) ==
    /\ tPc[t] \in {"appendAssistant", "end"}
    /\ sPc[t] = "idle"
    /\ tPc' = [tPc EXCEPT ![t] = "read"]
    /\ UNCHANGED <<storeVars, NotStore>>

NextTurn ==
    \/ \E t \in Threads : TurnBegin(t)
    \/ \E t \in Threads : ChatBegin(t)
    \/ \E t \in Threads, ok \in BOOLEAN : NetReturn(t, ok)
    \/ \E t \in Threads : StreamBegin(t)
    \/ \E t \in Threads : EndConversation(t)
    \/ \E t \in Threads : TurnEnd(t)
    \/ \E t \in Threads : Acquire(t) /\ UNCHANGED tPc
    \/ \E t \in Threads : AppendRead(t) /\ UNCHANGED tPc
    \/ \E t \in Threads : AppendWrite(t) /\ UNCHANGED tPc
    \/ \E t \in Threads : HistoryRead(t) /\ UNCHANGED tPc
    \/ \E t \in Threads : HistoryClone(t) /\ UNCHANGED tPc
    \/ \E t \in Threads : EndDelete(t) /\ UNCHANGED tPc
    \/ \E t \in Threads : Release(t) /\ UNCHANGED tPc

SpecTurn == InitStore /\ [][NextTurn]_vars

\* goroutine t holds the store's mutex, as writer or as reader
Holds(t) == sMu.writer = t \/ t \in sMu.readers

(* C21: the store's mutex is never held across an external call: a handler
   with a call to the embedding service, the vector index, the full-text
   index or the language model in flight holds the mutex neither as reader
   nor as writer and is in no store method, and a handler that holds the
   mutex is inside History, Append or End, between the lock and the
   unlock. *)
C21_NoLockAcrossNetworkCall ==
    \A t \in Threads :
        /\ InFlight(t) => (~Holds(t) /\ sPc[t] = "idle")
        /\ Holds(t) => /\ tPc[t] \in {"history", "appendUser", "appendAssistant", "end"}
                       /\ sPc[t] \in {"body1", "body2", "unlock"}

\* the completion request of t1 is in flight while t2 is inside Append with
\* the mutex, storing the user message of its own turn
C21_Witness ==
    /\ tPc["t1"] = "llm"
    /\ tPc["t2"] = "appendUser"
    /\ sMu.writer = "t2"
    /\ sPc["t2"] = "body2"

----------------------------------------------------------------------------
(* SpecEntry: the two entry points of ChatbotService.Chat side by side: one
   POST /api/v1/chat request and one connection sending append_message turns
   with every setting of the search flags. *)

FlagPayloads ==
    { AppendPayload("A", "m1", Hi, uv, uf, k, <<>>) :
        uv \in PtrFlags, uf \in PtrFlags, k \in {0, 1} }

InitEntry ==
    /\ hPhase = "request"
    /\ hReq \in ChatRequests
    /\ hEnv \in WsEnvs
    /\ hRes = NoChat
    /\ FusionIdle
    /\ WsIdle
    /\ StoreIdle
    /\ SplitIdle
    /\ TurnIdle
    /\ ProjIdle

NextEntry ==
    \/ ServeChat
    \/ \E c \in Observed, p \in FlagPayloads : handleAppendMessage(c, p) /\ UNCHANGED window
    \/ \E c \in Observed, env \in WsEnvs : CallChat(c, env) /\ UNCHANGED window
    \/ \E c \in Observed : AppendUser(c) /\ UNCHANGED window
    \/ \E c \in Observed : StreamAnswer(c) /\ UNCHANGED window
    \/ \E c \in Observed : AppendAssistant(c) /\ UNCHANGED window

SpecEntry == InitEntry /\ [][NextEntry]_vars

\* the search flags the rule gives for the flags (a, b) of a request
EffectiveFlags(a, b) == IF ~a /\ ~b THEN <<TRUE, TRUE>> ELSE <<a, b>>

(* C17: no request reaches Chat with both search flags false.  In
   append_message an absent flag counts as true and an explicit flag as its
   value, and (false, false) becomes (true, true); POST /chat turns
   (false, false) into (true, true) and leaves every other combination as it
   is: the embedding is requested exactly when the effective vector flag is
   set and the full-text index is queried exactly when the effective
   full-text flag is set. *)
C17_NeverBothFlagsFalse ==
    [][/\ \A c \in Conns : \A p \in FlagPayloads :
             handleAppendMessage(c, p)
             => LET e == EffectiveFlags(p.use_vector_search # "false",
                                        p.use_full_text # "false")
                IN  /\ req'[c].chat.useVectorSearch = e[1]
                    /\ req'[c].chat.useFullText = e[2]
       /\ \A c \in Conns : \A env \in WsEnvs :
             CallChat(c, env)
             => (req[c].chat.useVectorSearch \/ req[c].chat.useFullText)
       /\ (ServeChat /\ hRes'.status # 400)
          => LET e == EffectiveFlags(hReq.useVectorSearch, hReq.useFullText)
             IN  /\ Called(hRes'.chat.calls, "embed") <=> e[1]
                 /\ Called(hRes'.chat.calls, "fulltext") <=> e[2]
                 /\ e[1] \/ e[2]]_vars

\* POST /chat with both flags false consulted both sources while a turn whose
\* payload had both flags false stands in front of Chat with both flags set
C17_Witness ==
    /\ hPhase = "done"
    /\ ~hReq.useVectorSearch /\ ~hReq.useFullText
    /\ Called(hRes.chat.calls, "embed") /\ Called(hRes.chat.calls, "fulltext")
    /\ pc["c1"] = "chat"
    /\ req["c1"].chat.useVectorSearch /\ req["c1"].chat.useFullText

(* C30: POST /chat neither reads nor writes the session store: serving the
   request leaves the history of every conversation id as it was, whether the
   call succeeds, fails or is rejected; a response carries the request's
   conversation id; and every call of the language model is given the
   request's inline history followed by the new message, whatever the store
   holds for the conversation id. *)
C30_ChatLeavesStoreAlone ==
    [][ServeChat =>
          /\ histories' = histories
          /\ hRes'.chat.outcome = "ok" => hRes'.chat.conversationId = hReq.conversationId
          /\ \A i \in LlmCalls(hRes'.chat.calls) :
                 hRes'.chat.calls[i].messages
                   = hReq.history \o <<ChatMessage("user", hReq.message)>>]_vars

\* POST /chat on conversation A was answered while the store holds the two
\* messages of a streaming turn on A: the language model saw the inline history
\* and the message
C30_Witness ==
    /\ hPhase = "done"
    /\ hReq.conversationId = "A"
    /\ hRes.chat.outcome = "ok"
    /\ hRes.chat.conversationId = "A"
    /\ Len(histories["A"]) = 2
    /\ \E i \in LlmCalls(hRes.chat.calls) :
          hRes.chat.calls[i].messages = Append(InlineHistory, ChatMessage("user", Hi))

----------------------------------------------------------------------------
(* SpecSplit: splitString applied to answers of every length up to
   MaxSplitLen characters.  An answer is the content of a decoded JSON
   response, hence valid UTF-8; the answers mix characters of one to four
   bytes. *)

\* a, e-acute, a Hangul syllable and an emoji
Chars == <<<<97>>, <<195, 169>>, <<237, 149, 156>>, <<240, 159, 152, 128>>>>

\* one period of each pattern of characters, as bytes
Patterns ==
    <<Chars[1],
      Chars[1] \o Chars[2] \o Chars[3],
      Chars[3] \o Chars[4] \o Chars[2] \o Chars[1]>>
\* the characters in one period, and the bytes the first k characters of a
\* period take (k below the period)
PatternChars == <<1, 3, 4>>
PatternPrefix == <<<<0>>, <<0, 1, 3>>, <<0, 3, 7, 9>>>>

\* the text of n characters that repeats pattern k
TextOf(n, k) ==
    LET period == Patterns[k]
        bytes == (n \div PatternChars[k]) * Len(period)
                 + PatternPrefix[k][(n % PatternChars[k]) + 1]
    IN  [j \in 1..bytes |-> period[((j - 1) % Len(period)) + 1]]

SplitTexts == {TextOf(n, k) : n \in 0..MaxSplitLen, k \in 1..3}
\* the handler passes 200; a size of 0 or less means 200
SplitSizes == {0, ChunkSize}

InitSplit ==
    /\ spPhase = "input"
    /\ spText \in SplitTexts
    /\ spSize \in SplitSizes
    /\ spChunks = <<>>
    /\ TurnIdle
    /\ ProjIdle
    /\ FusionIdle
    /\ ChatIdle
    /\ WsIdle
    /\ StoreIdle

Split ==
    /\ spPhase = "input"
    /\ spChunks' = splitString(spText, spSize)
    /\ spPhase' = "done"
    /\ UNCHANGED <<spText, spSize>>
    /\ UNCHANGED <<fusionVars, chatVars, wsVars, storeVars, turnVars, projVars>>

NextSplit == Split

SpecSplit == InitSplit /\ [][NextSplit]_vars

\* the characters of a valid UTF-8 text: its bytes that are not continuations
CharCount(b) == Cardinality({i \in 1..Len(b) : ~IsCont(b, i)})

RECURSIVE Concat(_, _)
Concat(chunks, i) == IF i > Len(chunks) THEN <<>> ELSE chunks[i] \o Concat(chunks, i + 1)

(* C19: splitting an answer of L characters with chunk size 200 yields
   ceil(L / 200) chunks, or one empty chunk when L = 0; every chunk but the
   last has exactly 200 characters, the last has 1 to 200 (0 only when
   L = 0), and the chunks concatenated in order are the answer. *)
C19_ChunksRebuildAnswer ==
    spPhase = "done" =>
        LET L == CharCount(spText)
            n == Len(spChunks)
        IN  /\ n = IF L = 0 THEN 1 ELSE (L + 199) \div 200
            /\ \A i \in 1..(n - 1) : CharCount(spChunks[i]) = 200
            /\ CharCount(spChunks[n]) = L - 200 * (n - 1)
            /\ CharCount(spChunks[n]) <= 200
            /\ (L > 0 => CharCount(spChunks[n]) >= 1)
            /\ Concat(spChunks, 1) = spText

\* an answer of 401 characters of one to four bytes was split into three chunks
C19_Witness ==
    /\ spPhase = "done"
    /\ CharCount(spText) = 401
    /\ Len(spText) > 401
    /\ Len(spChunks) = 3
    /\ CharCount(spChunks[3]) = 1
    /\ Len(spChunks[1]) # Len(spChunks[2])

----------------------------------------------------------------------------
(* C4: the fusion result holds no two documents with the same id and has
   at most topK documents, for every candidate list and every topK for
   which the fusion returns a result. *)
C4_NoDupAndAtMostTopK ==
    Ranked =>
        /\ \A i, j \in 1..Len(fOut.docs) : i # j => fOut.docs[i].id # fOut.docs[j].id
        /\ Len(fOut.docs) <= fTopK

\* a list with a repeated id and more unique ids than topK was fused
C4_Witness ==
    /\ Ranked
    /\ Cardinality(Ids(fDocs)) < Len(fDocs)
    /\ Cardinality(Ids(fDocs)) > fTopK
    /\ Len(fOut.docs) = fTopK
    /\ fTopK >= 2

(* C5: the scores of the fusion output are non-increasing from the first
   document to the last. *)
C5_ScoresNonIncreasing ==
    Ranked =>
        \A i \in 1..(Len(fOut.docs) - 1) : fOut.docs[i].score >= fOut.docs[i + 1].score

\* an input whose unique documents were out of order was fused and kept whole
C5_Witness ==
    /\ Ranked
    /\ Len(fOut.docs) >= 3
    /\ fOut.docs # Dedup(fDocs)
    /\ fOut.docs[1].score > fOut.docs[Len(fOut.docs)].score

\* position of the document with id d in sequence s (0 when absent)
IndexOfId(s, d) ==
    IF \E i \in 1..Len(s) : s[i].id = d
    THEN CHOOSE i \in 1..Len(s) : s[i].id = d /\ \A k \in 1..(i - 1) : s[k].id # d
    ELSE 0

(* C6 (as claimed): two deduplicated documents with equal score keep their
   pre-sort order in the fusion output. *)
C6_StableOnTies ==
    Ranked =>
        LET u == Dedup(fDocs)
        IN  \A i, j \in 1..Len(fOut.docs) :
                (/\ i < j
                 /\ fOut.docs[i].score = fOut.docs[j].score)
                => IndexOfId(u, fOut.docs[i].id) < IndexOfId(u, fOut.docs[j].id)

(* C7: with U unique ids among the candidates the output has exactly
   min(topK, U) documents, and no omitted unique document has a strictly
   higher score than an included one. *)
C7_TruncatedByScore ==
    Ranked =>
        LET u == Dedup(fDocs)
        IN  /\ Len(fOut.docs) = Min(fTopK, Cardinality(Ids(fDocs)))
            /\ \A k \in 1..Len(u) :
                   u[k].id \notin Ids(fOut.docs)
                   => \A i \in 1..Len(fOut.docs) : u[k].score <= fOut.docs[i].score

\* a document was cut although it came before a kept one in the candidate list
C7_Witness ==
    /\ Ranked
    /\ Cardinality(Ids(fDocs)) > fTopK
    /\ fTopK >= 1
    /\ LET u == Dedup(fDocs)
       IN  /\ u[1].id \notin Ids(fOut.docs)
           /\ \E i \in 1..Len(fOut.docs) : fOut.docs[i].score > u[1].score

(* C29 (as claimed): for every integer topK, negative ones included, the
   fusion returns without aborting and its result has at most max(topK, 0)
   documents. *)
C29_AnyTopKReturns ==
    fPhase = "done" =>
        /\ ~fOut.panic
        /\ Len(fOut.docs) <= (IF fTopK > 0 THEN fTopK ELSE 0)

(* C26: fusion puts the vector hits before the full-text hits and keeps the
   first occurrence of each id: no id occurs twice among the sources of a
   response; a source whose id the vector search returned is that vector hit,
   with its score and content, whatever the full-text index holds for the id;
   any other source is the first full-text hit of its id; and the sources are
   ordered by the scores they carry. *)
C26_VectorHitWins ==
    (Served /\ hRes.chat.outcome = "ok") =>
        LET k == IF hReq.topK = 0 THEN 5 ELSE hReq.topK
            e == EffectiveFlags(hReq.useVectorSearch, hReq.useFullText)
            vec == IF e[1] /\ ~VectorFailed THEN Take(hEnv.vecHits, k) ELSE <<>>
            ft == IF e[2] /\ ~FullTextFailed THEN Take(hEnv.ftHits, k) ELSE <<>>
            src == hRes.chat.sources
        IN  /\ \A i, j \in 1..Len(src) : i # j => src[i].id # src[j].id
            /\ \A i \in 1..Len(src) :
                   IF src[i].id \in Ids(vec)
                   THEN src[i] = vec[IndexOfId(vec, src[i].id)]
                   ELSE /\ src[i].id \in Ids(ft)
                        /\ src[i] = ft[IndexOfId(ft, src[i].id)]
            /\ \A i \in 1..(Len(src) - 1) : src[i].score >= src[i + 1].score

\* d2 came from both sources, with score 1 from the vector index and score 2
\* from the full-text index: it is returned once, as the vector hit, behind the
\* full-text hit d3 of score 2 that followed it in the full-text list
C26_Witness ==
    /\ Served
    /\ hRes.chat.outcome = "ok"
    /\ hEnv.vecHits = <<Doc("d2", 1, <<"vec", 1>>)>>
    /\ hEnv.ftHits = DupFtHits
    /\ hRes.chat.sources = <<Doc("d3", 2, <<"ft", 2>>), Doc("d2", 1, <<"vec", 1>>)>>

----------------------------------------------------------------------------
(* Claims about the session store *)

IsPrefix(a, b) == Len(a) <= Len(b) /\ SubSeq(b, 1, Len(a)) = a

(* C11: the history of an id is append-only until End(id): a step leaves the
   stored history of id alone, or is the write of an Append(id, m) and
   extends it by exactly m at the end, or is the delete of an End(id);
   and every History(id) result has the previous History(id) result since
   the last End(id) as a prefix. *)
C11_AppendOnlyUntilEnd ==
    [][\A id \in StoreIds :
          /\ \/ Contents(id)' = Contents(id)
             \/ \E t \in Threads : AppendWrite(t) /\ sOp[t].id = id
             \/ \E t \in Threads : EndDelete(t) /\ sOp[t].id = id
          /\ \A t \in Threads :
                (AppendWrite(t) /\ sOp[t].id = id)
                => Contents(id)' = Append(Contents(id), sOp[t].msg)
          /\ \A t \in Threads :
                (HistoryClone(t) /\ sOp[t].id = id)
                => /\ Elems(sArrays', sRes'[t].slice) = Contents(id)
                   /\ IsPrefix(sSeen[id], Elems(sArrays', sRes'[t].slice))]_vars

\* History(A) is about to return two messages after an earlier History(A)
\* returned the first of them
C11_Witness ==
    /\ sPc["t2"] = "body2"
    /\ sOp["t2"] = HistoryOp("A")
    /\ sLoc["t2"].len = 2
    /\ Len(sSeen["A"]) = 1

(* C12: History returns a copy: a caller that overwrites an element of a
   returned slice or appends to it changes no stored history and no slice
   another caller holds, and every History(id) returns exactly the messages
   appended through Append since the last End(id). *)
C12_HistoryReturnsCopy ==
    [][\A t \in Threads :
          /\ (CallerOverwrite(t) \/ CallerAppend(t))
             => /\ \A id \in StoreIds : Contents(id)' = Contents(id)
                /\ \A u \in Threads \ {t} :
                      Elems(sArrays', sRes'[u].slice) = Elems(sArrays, sRes[u].slice)
          /\ HistoryClone(t)
             => Elems(sArrays', sRes'[t].slice) = sLin[sOp[t].id]]_vars

\* History(A) returned the stored message after the caller had overwritten the
\* slice an earlier History(A) gave it
C12_Witness ==
    /\ sPc["t2"] = "unlock"
    /\ sOp["t2"] = HistoryOp("A")
    /\ sRes["t2"].slice.len = 1
    /\ Elems(sArrays, sRes["t2"].slice) = sLin["A"]
    /\ \E a \in 1..Len(sArrays) :
          a # sRes["t2"].slice.arr /\ sArrays[a][1] = CallerMessage

(* C13: the calls are linearizable in the order of their critical sections:
   a writer is alone with the mutex, whenever no writer holds the mutex the
   store holds exactly the messages of the Append calls that came after the
   last End(id), in that order, and a History result is the history at the
   point of its copy. *)
C13_Linearizable ==
    /\ sMu.writer # "none" => sMu.readers = {}
    /\ sMu.writer = "none" => \A id \in StoreIds : Contents(id) = sLin[id]
    /\ \A t \in Threads :
          (sPc[t] = "unlock" /\ sOp[t].kind = "History")
          => Elems(sArrays, sRes[t].slice) = sRes[t].lin

\* an Append(A) waits for the mutex while another Append(A) is between its
\* read and its write
C13_Witness ==
    /\ sMu.writer = "t1"
    /\ sPc["t1"] = "body2"
    /\ sOp["t1"].kind = "Append" /\ sOp["t1"].id = "A"
    /\ sPc["t2"] = "lock"
    /\ sOp["t2"].kind = "Append" /\ sOp["t2"].id = "A"
    /\ Len(sLin["A"]) >= 1

(* C14 (as claimed): a call on one id can enter its critical section while
   an Append or End on a different id is inside its own. *)
C14_DifferentIdsDoNotBlock ==
    \A t, u \in Threads :
        (/\ t # u
         /\ sPc[t] = "lock"
         /\ sPc[u] \in {"body1", "body2"}
         /\ sOp[u].kind \in {"Append", "End"}
         /\ sOp[t].id # sOp[u].id)
        => IF sOp[t].kind = "History" THEN CanRLock(t) ELSE CanLock(t)

----------------------------------------------------------------------------
(* Claims about the streaming protocol *)

TurnKinds == {"turn", "turn_ok", "turn_err", "panic"}
Types(o) == [i \in 1..Len(o) |-> o[i].type]

\* the events of a completed successful turn: one message_ack, the chunks
\* 0..N-1 with N >= 1, one stream_end, all with the ids of the ack
TurnEvents(o) ==
    LET n == Len(o) - 2
    IN  /\ n >= 1
        /\ o[1].type = "message_ack"
        /\ \A i \in 1..n : o[i + 1].type = "stream_chunk" /\ o[i + 1].index = i - 1
        /\ o[n + 2].type = "stream_end"
        /\ \A i \in 2..Len(o) :
               /\ o[i].conversationId = o[1].conversationId
               /\ o[i].messageId = o[1].messageId

(* C1: a turn with a non-empty message whose Chat call succeeds writes one
   message_ack, then the stream_chunk events 0..N-1 (N >= 1), then one
   stream_end, and no error event; all carry the ack's conversation id and
   message id.  Until the chunks are written only the ack is out. *)
C1_AckChunksEnd ==
    \A c \in Conns :
        last[c] = "turn_ok" =>
            IF pc[c] \in {"appendUser", "stream"}
            THEN Types(out[c]) = <<"message_ack">>
            ELSE TurnEvents(out[c])

\* a turn with generated ids was answered in two chunks
C1_Witness ==
    /\ last["c1"] = "turn_ok"
    /\ pc["c1"] = "read"
    /\ Types(out["c1"]) = <<"message_ack", "stream_chunk", "stream_chunk", "stream_end">>
    /\ out["c1"][1].conversationId = "u1"
    /\ out["c1"][1].messageId = "u2"

(* C2 (as claimed): the sixth append_message read on a connection within one
   second is rejected with an error event and is not processed as a turn;
   the first five are not rejected for their rate. *)
C2_SixthAppendRejected ==
    \A c \in Conns :
        /\ (window[c] > RateLimit /\ last[c] \in TurnKinds \cup {"bad_payload", "empty_message"})
           => (last[c] \notin TurnKinds /\ Types(out[c]) = <<"error">>)
        /\ (window[c] <= RateLimit /\ last[c] \in TurnKinds)
           => out[c][1].type = "message_ack"

(* C23: a successful turn writes the session store twice and nowhere else:
   between reading the frame and the return of Chat the store is left alone;
   the step after the return appends the user's message to the history of the
   turn's conversation id while only the ack is out; the streaming step
   writes the chunks and stream_end and leaves the store alone; the last step
   appends the answer carried by stream_end.  The inline history of the
   payload is in neither append. *)
C23_TwoAppendsPerTurn ==
    [][\A c \in Conns :
          LET cid == out[c][1].conversationId
              n == Len(out[c])
          IN  /\ ((pc[c] = "read" /\ pc'[c] = "chat") \/ (pc[c] = "chat" /\ pc'[c] # "chat"))
                 => histories' = histories
              /\ (pc[c] = "appendUser" /\ pc'[c] # "appendUser")
                 => /\ pc'[c] = "stream"
                    /\ Types(out[c]) = <<"message_ack">>
                    /\ out'[c] = out[c]
                    /\ histories' = [histories EXCEPT ![cid] =
                                        Append(@, ChatMessage("user", req[c].chat.message))]
              /\ (pc[c] = "stream" /\ pc'[c] # "stream")
                 => /\ pc'[c] = "appendAssistant"
                    /\ out'[c][Len(out'[c])].type = "stream_end"
                    /\ histories' = histories
              /\ (pc[c] = "appendAssistant" /\ pc'[c] # "appendAssistant")
                 => /\ pc'[c] = "read"
                    /\ out[c][n].type = "stream_end"
                    /\ out'[c] = out[c]
                    /\ histories' = [histories EXCEPT ![cid] =
                                        Append(@, ChatMessage("assistant", out[c][n].answer))]]_vars

\* a turn that carried inline history is about to store its answer: the
\* conversation held two messages and now holds the user's message as its third
C23_Witness ==
    /\ pc["c1"] = "appendAssistant"
    /\ req["c1"].chat.conversationId = "A"
    /\ Len(req["c1"].chat.history) = 4
    /\ Len(histories["A"]) = 3
    /\ histories["A"][3] = ChatMessage("user", Hi)

(* C24: the messages a turn hands to the language model are the session
   history of its conversation id as it was when the frame was read, then the
   inline history of the payload, then the new user message: the step that
   reads the frame builds the request history from the store and the payload
   in that order, whole, and whenever Chat calls the language model it passes
   the request history followed by the user message, whatever happened to the
   store in between. *)
C24_SessionThenInlineThenUser ==
    [][\A c \in Conns :
          /\ (pc[c] = "read" /\ pc'[c] = "chat")
             => \A p \in AppendPayloads :
                   (p.decodable /\ handleAppendMessage(c, p))
                   => /\ req'[c].chat.history
                           = histories[req'[c].chat.conversationId] \o p.history
                      /\ req'[c].chat.message = p.message
          /\ (pc[c] = "chat" /\ pc'[c] # "chat")
             => \A env \in WsEnvs :
                   CallChat(c, env)
                   => LET calls == Chat(req[c].chat, env).calls
                      IN  \A i \in LlmCalls(calls) :
                             calls[i].messages
                               = req[c].chat.history
                                 \o <<ChatMessage("user", req[c].chat.message)>>]_vars

\* a turn on conversation A stands in front of Chat with the two stored
\* messages and the two inline ones, and A was ended in the meantime
C24_Witness ==
    /\ pc["c1"] = "chat"
    /\ req["c1"].chat.conversationId = "A"
    /\ req["c1"].chat.history
         = <<ChatMessage("user", Hi), ChatMessage("assistant", AnswerOfLen(0))>>
           \o InlineHistory
    /\ histories["A"] = <<>>

(* C28 (as claimed): whatever other connections do on the same conversation
   id, every assistant answer in a history has a user message directly
   before it, and every user message is directly followed by an assistant
   answer, the last message excepted while the turn that stored it has not
   yet stored its answer. *)
C28_AppendsAtomic ==
    \A id \in ConvIds :
        LET h == histories[id]
        IN  \A i \in 1..Len(h) :
                /\ h[i].role = "assistant" => (i > 1 /\ h[i - 1].role = "user")
                /\ h[i].role = "user"
                   => \/ (i < Len(h) /\ h[i + 1].role = "assistant")
                      \/ /\ i = Len(h)
                         /\ \E c \in Conns :
                               /\ pc[c] \in {"stream", "appendAssistant"}
                               /\ req[c].chat.conversationId = id

(* C15: an append_message with a decodable payload and a non-empty message
   has its message_ack written before the call of Chat begins: the step that
   reads the frame leaves exactly the ack written and the handler in front of
   the call, and when the call is made the ack is the first envelope of the
   turn and stays so whether the call returns a response, an error or
   panics. *)
C15_AckBeforeChat ==
    [][\A c \in Conns :
          /\ \A p \in AppendPayloads :
                (p.decodable /\ p.message # <<>> /\ handleAppendMessage(c, p))
                => /\ Types(out'[c]) = <<"message_ack">>
                   /\ pc'[c] = "chat"
          /\ \A env \in WsEnvs :
                CallChat(c, env)
                => /\ Types(out[c]) = <<"message_ack">>
                   /\ out'[c][1] = out[c][1]]_vars

\* the ack of a turn with a negative top_k is out and Chat has not been called
C15_Witness ==
    /\ pc["c1"] = "chat"
    /\ Types(out["c1"]) = <<"message_ack">>
    /\ req["c1"].chat.topK < 0

(* C16: an append_message whose message is empty produces exactly one error
   event and nothing else: no message_ack, no call of Chat (the handler is
   back at reading the next frame), no identifier drawn and no change to the
   session store. *)
C16_EmptyMessageRejected ==
    [][\A c \in Conns : \A p \in AppendPayloads :
          (p.decodable /\ p.message = <<>> /\ handleAppendMessage(c, p))
          => /\ Types(out'[c]) = <<"error">>
             /\ pc'[c] = "read"
             /\ last'[c] = "empty_message"
             /\ histories' = histories
             /\ uuids' = uuids
             /\ req' = req]_vars

\* an empty message was rejected on a server whose store holds a conversation
C16_Witness ==
    /\ last["c1"] = "empty_message"
    /\ Types(out["c1"]) = <<"error">>
    /\ Len(histories["A"]) = 2

(* C20: each start_conversation, typing and end_conversation event produces
   exactly one system_notice and no other event; start_conversation and
   typing leave the session store unchanged, and end_conversation removes
   the history of the id it names and of no other id (nothing when it names
   none). *)
C20_NoticeAndStoreEffect ==
    [][\A c \in Conns : \A id \in IdPayloads :
          /\ (handleStartConversation(c, id) \/ handleTyping(c, id))
             => /\ Types(out'[c]) = <<"system_notice">>
                /\ histories' = histories
          /\ handleEndConversation(c, id)
             => /\ Types(out'[c]) = <<"system_notice">>
                /\ histories' = [k \in DOMAIN histories |->
                                    IF k = id THEN <<>> ELSE histories[k]]]_vars

\* c2 ended conversation A, on which c1 had just finished a turn, and the
\* history of conversation B is still there
C20_Witness ==
    /\ last["c2"] = "end"
    /\ Types(out["c2"]) = <<"system_notice">>
    /\ last["c1"] = "turn_ok" /\ pc["c1"] = "read"
    /\ out["c1"][1].conversationId = "A"
    /\ histories["A"] = <<>>
    /\ Len(histories["B"]) = 2

ErrorKinds == {"malformed", "unknown_type", "bad_payload", "empty_message", "turn_err"}

(* C8 (as claimed): the handler loop stops only on a read error of the
   transport; a malformed envelope, an unknown event type, an undecodable
   payload, an empty message and a failed Chat call each end in an error
   event, after which the loop reads the next frame. *)
C8_LoopStopsOnlyOnReadError ==
    [][\A c \in Conns :
          /\ (pc[c] # "closed" /\ pc'[c] = "closed") => last'[c] = "read_error"
          /\ (last'[c] \in ErrorKinds /\ out'[c] # out[c])
             => (pc'[c] = "read" /\ out'[c][Len(out'[c])].type = "error")]_vars

(* C9: when the Chat call of a turn returns an error (the language model
   failed or the deadline passed), the turn's events are its message_ack
   followed by exactly one error: no stream_chunk, no stream_end. *)
C9_FailedTurnAckThenError ==
    \A c \in Conns :
        last[c] = "turn_err" =>
            /\ Types(out[c]) = <<"message_ack", "error">>
            /\ pc[c] \in {"read", "closed"}

\* a turn failed on a conversation that already had a history
C9_Witness ==
    /\ last["c1"] = "turn_err"
    /\ out["c1"][1].conversationId = "A"
    /\ Len(histories["A"]) = 2

(* C10: a failed turn leaves the session store unchanged: neither the step
   that reads the frame and starts the turn nor the step in which the Chat
   call fails and the error is sent changes the history of any id. *)
C10_FailedTurnKeepsStore ==
    [][\A c \in Conns :
          ((pc[c] = "read" /\ pc'[c] = "chat") \/ (pc[c] = "chat" /\ last'[c] = "turn_err"))
          => histories' = histories]_vars

\* a turn with a generated message id failed on a conversation that held the
\* user message and the answer of an earlier turn
C10_Witness ==
    /\ last["c1"] = "turn_err"
    /\ out["c1"][1].conversationId = "A"
    /\ out["c1"][1].messageId = "u1"
    /\ Len(histories["A"]) = 2
    /\ histories["A"][1] = ChatMessage("user", Hi)
    /\ histories["A"][2].role = "assistant"

====
